---- MODULE Spec2Model ----
(***************************************************************************)
(* Solara-Beta: the market-regime model (HMMAnalyzer), its owner           *)
(* (MLTechnicalAnalyzer) and the indicator engine (TraditionalTAAnalyzer). *)
(*                                                                         *)
(* Numbers.  JavaScript numbers are modelled as exact rationals <<n, d>>   *)
(* (d > 0, lowest terms) extended with the three IEEE specials the code    *)
(* can produce: NaN = <<0,0>>, +Infinity = <<1,0>>, -Infinity = <<-1,0>>.  *)
(* Rounding is not modelled; the order of every comparison is the order    *)
(* of the real numbers, and a comparison with NaN is false as in JS.       *)
(***************************************************************************)
EXTENDS Integers, Sequences, FiniteSets, TLC

-----------------------------------------------------------------------------
(* State.                                                                  *)
(*   hmm          the HMMAnalyzer object                                   *)
(*   lastCall     the latest trainModel / predictMarketRegime call on it   *)
(*                and what it returned or threw                            *)
(*   pc, tokenData, hmmAnalysis                                            *)
(*                per token, where its analyzeToken call stands, the       *)
(*                series it holds, and the result of its runHMMAnalysis    *)
(*   trainedFor   history variable: the token whose series produced the    *)
(*                parameters hmm holds ("none" before any training)        *)
(*   ta           the latest analyzeTechnicals call and its outcome        *)
(*   memo         the results of training and of decoding on the inputs    *)
(*                of the model, computed once and never changed            *)
(*   at           where one analyzeToken call stands and what it holds:    *)
(*                the collected price data, the partial analyses, and the  *)
(*                combined analysis or the error it ends with              *)
(*   pdc          a PriceDataCollector: its dataCache, the files of its    *)
(*                local storage, the clock Date.now() reads, and the       *)
(*                latest collectHistoricalData call with its outcome       *)
(*   bot          one run of a limit-order bot: the variant running, the   *)
(*                loop it is in, and what its latest loop iteration did    *)
(*   bw           one baumWelchTraining call, iteration by iteration: the  *)
(*                parameters, the loop counter, prevLikelihood, the        *)
(*                likelihoods computed so far, and the result returned     *)
(*   app          the latest application of a function that keeps no       *)
(*                state: its name, its arguments and its result            *)

VARIABLES hmm, lastCall, pc, tokenData, hmmAnalysis, trainedFor, ta, memo, at,
          pdc, bot, bw, app

vars == <<hmm, lastCall, pc, tokenData, hmmAnalysis, trainedFor, ta, memo, at,
          pdc, bot, bw, app>>

-----------------------------------------------------------------------------
(* Arithmetic on modelled numbers *)

Abs(x) == IF x < 0 THEN -x ELSE x

RECURSIVE Gcd(_, _)
Gcd(a, b) == IF b = 0 THEN a ELSE Gcd(b, a % b)

NaN    == <<0, 0>>
PosInf == <<1, 0>>
NegInf == <<-1, 0>>

Rat(n, d) ==
  IF d = 0 THEN (IF n = 0 THEN NaN ELSE IF n > 0 THEN PosInf ELSE NegInf)
  ELSE LET s == IF d < 0 THEN -1 ELSE 1
           g == Gcd(Abs(n), Abs(d))
       IN  <<(s * n) \div g, (s * d) \div g>>

Num(n) == <<n, 1>>
Zero == Num(0)
One  == Num(1)

IsNaN(x)    == x = NaN
IsFinite(x) == x[2] # 0
Sign(x)     == IF x[1] > 0 THEN 1 ELSE IF x[1] < 0 THEN -1 ELSE 0

Add(x, y) ==
  IF IsNaN(x) \/ IsNaN(y) THEN NaN
  ELSE IF ~IsFinite(x) THEN (IF ~IsFinite(y) /\ y # x THEN NaN ELSE x)
  ELSE IF ~IsFinite(y) THEN y
  ELSE LET g == Gcd(x[2], y[2])
       IN  Rat(x[1] * (y[2] \div g) + y[1] * (x[2] \div g), (x[2] \div g) * y[2])

Neg(x) == <<-x[1], x[2]>>
Sub(x, y) == Add(x, Neg(y))

Mul(x, y) ==
  IF IsNaN(x) \/ IsNaN(y) THEN NaN
  ELSE IF ~IsFinite(x) \/ ~IsFinite(y)
       THEN Rat(Sign(x) * Sign(y), 0)          \* 0 * Infinity = NaN
  ELSE LET g1 == Gcd(Abs(x[1]), y[2])
           g2 == Gcd(Abs(y[1]), x[2])
       IN  Rat((x[1] \div g1) * (y[1] \div g2), (x[2] \div g2) * (y[2] \div g1))

Div(x, y) ==
  IF IsNaN(x) \/ IsNaN(y) THEN NaN
  ELSE IF ~IsFinite(y) THEN (IF IsFinite(x) THEN Zero ELSE NaN)
  ELSE IF ~IsFinite(x) THEN (IF y[1] < 0 THEN Neg(x) ELSE x)
  ELSE IF y[1] = 0 THEN Rat(x[1], 0)           \* 0/0 = NaN, x/0 = +-Infinity
  ELSE Mul(x, Rat(y[2], y[1]))

\* x < y and x > y as JavaScript evaluates them: false when either is NaN.
Lt(x, y) ==
  /\ ~IsNaN(x) /\ ~IsNaN(y)
  /\ x # y
  /\ IF ~IsFinite(x) THEN x = NegInf
     ELSE IF ~IsFinite(y) THEN y = PosInf
     ELSE x[1] * y[2] < y[1] * x[2]
Gt(x, y) == Lt(y, x)

RECURSIVE Tab(_, _)
\* the array <<F(0), ..., F(n-1)>>, built element by element
Tab(F(_), n) == IF n = 0 THEN <<>> ELSE Append(Tab(F, n - 1), F(n - 1))

\* a[i] of a 0-based JS array held as a sequence
At(a, i) == a[i + 1]

RECURSIVE SumSeq(_)
SumSeq(s) == IF s = <<>> THEN Zero ELSE Add(SumSeq(SubSeq(s, 1, Len(s) - 1)), s[Len(s)])

RECURSIVE MaxInt(_)
\* Math.max(...xs) of a non-empty array of integers
MaxInt(s) == IF Len(s) = 1 THEN s[1]
             ELSE LET m == MaxInt(Tail(s)) IN IF s[1] > m THEN s[1] ELSE m

-----------------------------------------------------------------------------
(* HMMAnalyzer: configuration *)

numStates            == 4      \* this.states.length
windowSize           == 20
minTrainingData      == 100
maxIterations        == 50
numSymbolsK          == 8      \* numSymbols of discretizeObservations
states == <<"BULL", "BEAR", "SIDEWAYS", "HIGH_VOLATILITY">>

\* config.convergenceThreshold = 1e-6, held as its reciprocal
convergenceThresholdInv == 1000000

-----------------------------------------------------------------------------
(* HMMAnalyzer: the numerical core.  The model parameters travel as a      *)
(* record m = [A, B, pi, K] for this.transitionMatrix, this.emissionMatrix,*)
(* this.initialProbs and this.numSymbols.  Arrays are 0-based in the       *)
(* source and read here through At.                                        *)

\* Matrix.get(i, k): ml-matrix does not range-check, an index past the row
\* yields undefined, which every arithmetic use turns into NaN.
MGet(M, i, k) == IF k + 1 \in DOMAIN M[i + 1] THEN M[i + 1][k + 1] ELSE NaN

\* the mutant: initial probabilities that favour state 0
initializeParametersSkewed(observations) ==
  LET numSymbols == MaxInt(observations) + 1
  IN  [A  |-> Tab(LAMBDA i : Tab(LAMBDA j : Rat(1, numStates), numStates), numStates),
       B  |-> Tab(LAMBDA i : Tab(LAMBDA k : Rat(1, numSymbols), numSymbols), numStates),
       pi |-> <<Rat(1, 2), Rat(1, 4), Rat(1, 8), Rat(1, 8)>>,
       K  |-> numSymbols]

initializeParameters(observations) ==
  LET numSymbols == MaxInt(observations) + 1
  IN  [A  |-> Tab(LAMBDA i : Tab(LAMBDA j : Rat(1, numStates), numStates), numStates),
       B  |-> Tab(LAMBDA i : Tab(LAMBDA k : Rat(1, numSymbols), numSymbols), numStates),
       pi |-> Tab(LAMBDA i : Rat(1, numStates), numStates),
       K  |-> numSymbols]

RECURSIVE forwardPass(_, _, _)
\* rows alpha[0..t]
forwardPass(m, observations, t) ==
  IF t = 0
  THEN << Tab(LAMBDA i : Mul(At(m.pi, i), MGet(m.B, i, At(observations, 0))), numStates) >>
  ELSE LET prev == forwardPass(m, observations, t - 1)
           last == prev[t]
       IN  Append(prev,
             Tab(LAMBDA j :
                   Mul(SumSeq(Tab(LAMBDA i : Mul(At(last, i), MGet(m.A, i, j)), numStates)),
                       MGet(m.B, j, At(observations, t))),
                 numStates))

RECURSIVE backwardPass(_, _, _)
\* rows beta[t..T-1]
backwardPass(m, observations, t) ==
  LET T == Len(observations)
  IN  IF t = T - 1
      THEN << Tab(LAMBDA i : One, numStates) >>
      ELSE LET next  == backwardPass(m, observations, t + 1)
               first == next[1]
           IN  << Tab(LAMBDA i :
                        SumSeq(Tab(LAMBDA j :
                                     Mul(Mul(MGet(m.A, i, j),
                                             MGet(m.B, j, At(observations, t + 1))),
                                         At(first, j)),
                                   numStates)),
                      numStates) >> \o next

\* likelihood is held as the probability P; the source returns Math.log(P).
forwardBackward(m, observations) ==
  LET T     == Len(observations)
      alpha == forwardPass(m, observations, T - 1)
      beta  == backwardPass(m, observations, 0)
  IN  [alpha |-> alpha, beta |-> beta, likelihood |-> SumSeq(alpha[T])]

updateParameters(m, observations, alpha, beta) ==
  LET T == Len(observations)
      N == numStates
      ab(t, i) == Mul(At(At(alpha, t), i), At(At(beta, t), i))
      gamma == Tab(LAMBDA t :
                     LET normalizer == SumSeq(Tab(LAMBDA i : ab(t, i), N))
                     IN  Tab(LAMBDA i : Div(ab(t, i), normalizer), N),
                   T)
      g(t, i) == At(At(gamma, t), i)
      xi(t, i, j) ==
        Div(Mul(Mul(Mul(At(At(alpha, t), i), MGet(m.A, i, j)),
                    MGet(m.B, j, At(observations, t + 1))),
                At(At(beta, t + 1), j)),
            ab(t, i))
  IN  [pi |-> Tab(LAMBDA i : g(0, i), N),
       A  |-> Tab(LAMBDA i :
                    LET denominator == SumSeq(Tab(LAMBDA t : g(t, i), T - 1))
                    IN  Tab(LAMBDA j :
                              Div(SumSeq(Tab(LAMBDA t : xi(t, i, j), T - 1)), denominator),
                            N),
                  N),
       B  |-> Tab(LAMBDA i :
                    LET denominator == SumSeq(Tab(LAMBDA t : g(t, i), T))
                    IN  Tab(LAMBDA k :
                              Div(SumSeq(Tab(LAMBDA t :
                                               IF At(observations, t) = k
                                               THEN g(t, i) ELSE Zero, T)),
                                  denominator),
                            m.K),
                  N),
       K  |-> m.K]

\* Math.abs(Math.log(p) - Math.log(q)) < convergenceThreshold.  Math.log(0) is
\* -Infinity and the difference is then Infinity or NaN, so the test fails;
\* for positive p, q it is |ln(p/q)| < 1e-6, taken to first order.
LogClose(p, q) ==
  /\ IsFinite(p) /\ IsFinite(q) /\ p[1] > 0 /\ q[1] > 0
  /\ LET r  == Div(p, q)
         lo == IF r[1] < r[2] THEN r[1] ELSE r[2]
     IN  Abs(r[1] - r[2]) <= (lo - 1) \div convergenceThresholdInv

RECURSIVE baumWelchLoop(_, _, _, _)
baumWelchLoop(m, observations, iteration, prevLikelihood) ==
  IF iteration >= maxIterations
  THEN [m |-> m, iterations |-> iteration, likelihood |-> prevLikelihood,
        converged |-> FALSE]
  ELSE LET fb == forwardBackward(m, observations)
           m2 == updateParameters(m, observations, fb.alpha, fb.beta)
       IN  IF LogClose(fb.likelihood, prevLikelihood)
           THEN [m |-> m2, iterations |-> iteration + 1, likelihood |-> fb.likelihood,
                 converged |-> TRUE]
           ELSE baumWelchLoop(m2, observations, iteration + 1, fb.likelihood)

\* prevLikelihood starts at -Infinity = Math.log(0)
baumWelchTraining(m, observations) == baumWelchLoop(m, observations, 0, Zero)

RECURSIVE argMaxScanLast(_, _, _, _)
\* the mutant: a later value that equals the maximum takes its place
argMaxScanLast(values, i, maxValue, maxIndex) ==
  IF i >= Len(values) THEN [maxValue |-> maxValue, maxIndex |-> maxIndex]
  ELSE IF ~Lt(At(values, i), maxValue)
       THEN argMaxScanLast(values, i + 1, At(values, i), i)
       ELSE argMaxScanLast(values, i + 1, maxValue, maxIndex)

RECURSIVE argMaxScan(_, _, _, _)
\* the loop "if (value > maxValue) { maxValue = value; maxIndex = i }" over
\* values[i..], which keeps the first index that holds the maximum
argMaxScan(values, i, maxValue, maxIndex) ==
  IF i >= Len(values) THEN [maxValue |-> maxValue, maxIndex |-> maxIndex]
  ELSE IF Gt(At(values, i), maxValue)
       THEN argMaxScan(values, i + 1, At(values, i), i)
       ELSE argMaxScan(values, i + 1, maxValue, maxIndex)

RECURSIVE viterbiForward(_, _, _)
\* rows <<delta[t], psi[t]>> for 0..t.  delta holds exp of the source's log
\* score: a sum of logs is the log of the product, Math.log(0) = -Infinity is
\* the product 0, and maxValue = -Infinity is the product 0.
viterbiForward(m, observations, t) ==
  IF t = 0
  THEN << [delta |-> Tab(LAMBDA i : Mul(At(m.pi, i), MGet(m.B, i, At(observations, 0))),
                          numStates),
           psi   |-> Tab(LAMBDA i : 0, numStates)] >>
  ELSE LET prev == viterbiForward(m, observations, t - 1)
           last == prev[t].delta
           best(j) == argMaxScan(Tab(LAMBDA i : Mul(At(last, i), MGet(m.A, i, j)),
                                     numStates), 0, Zero, 0)
       IN  Append(prev,
             [delta |-> Tab(LAMBDA j : Mul(best(j).maxValue,
                                           MGet(m.B, j, At(observations, t))), numStates),
              psi   |-> Tab(LAMBDA j : best(j).maxIndex, numStates)])

RECURSIVE traceback(_, _, _)
\* stateSequence[t..T-1]
traceback(rows, t, T) ==
  IF t = T - 1
  THEN << argMaxScan(rows[T].delta, 0, Zero, 0).maxIndex >>
  ELSE LET rest == traceback(rows, t + 1, T)
       IN  << At(rows[t + 2].psi, rest[1]) >> \o rest

RECURSIVE tracebackFromFirst(_, _, _)
\* the mutant: the traceback starts from state 0, not from the best final state
tracebackFromFirst(rows, t, T) ==
  IF t = T - 1
  THEN << 0 >>
  ELSE LET rest == tracebackFromFirst(rows, t + 1, T)
       IN  << At(rows[t + 2].psi, rest[1]) >> \o rest

viterbiDecodeFromFirst(m, observations) ==
  LET T == Len(observations)
  IN  tracebackFromFirst(viterbiForward(m, observations, T - 1), 0, T)

viterbiDecode(m, observations) ==
  LET T == Len(observations)
  IN  traceback(viterbiForward(m, observations, T - 1), 0, T)

calculateStateProbabilities(m, observations) ==
  LET alpha == forwardBackward(m, observations).alpha
  IN  Tab(LAMBDA t :
            LET normalizer == SumSeq(At(alpha, t))
            IN  Tab(LAMBDA i : Div(At(At(alpha, t), i), normalizer), numStates),
          Len(observations))

predictNextState(m, currentState) ==
  Tab(LAMBDA i : MGet(m.A, currentState, i), numStates)

RECURSIVE consecutiveFrom(_, _, _)
consecutiveFrom(stateSequence, i, currentState) ==
  IF i < 0 \/ At(stateSequence, i) # currentState THEN 0
  ELSE 1 + consecutiveFrom(stateSequence, i - 1, currentState)

calculateRegimePersistence(m, stateSequence) ==
  LET currentState == stateSequence[Len(stateSequence)]
      consecutive  == consecutiveFrom(stateSequence, Len(stateSequence) - 1, currentState)
      selfTransitionProb == MGet(m.A, currentState, currentState)
      expectedDuration   == Div(One, Sub(One, selfTransitionProb))
  IN  [consecutivePeriods |-> consecutive,
       expectedDuration |-> expectedDuration,
       probabilityOfContinuation |-> selfTransitionProb,
       stabilityScore |-> Div(Num(consecutive), expectedDuration)]

\* currentState is an index into states, or -1 (indexOf of an unknown name)
generateRegimeBasedRecommendation(currentState, stateProbs) ==
  LET regimeName == At(states, currentState)
      confidence == At(stateProbs, currentState)
  IN  CASE regimeName = "BULL" ->
             [regime |-> regimeName, confidence |-> confidence,
              action |-> IF Gt(confidence, Rat(7, 10)) THEN "BUY" ELSE "WEAK_BUY",
              riskLevel |-> "LOW",
              positionSizing |-> IF Gt(confidence, Rat(8, 10)) THEN "LARGE" ELSE "NORMAL"]
        [] regimeName = "BEAR" ->
             [regime |-> regimeName, confidence |-> confidence,
              action |-> IF Gt(confidence, Rat(7, 10)) THEN "SELL" ELSE "WEAK_SELL",
              riskLevel |-> "HIGH", positionSizing |-> "SMALL"]
        [] regimeName = "SIDEWAYS" ->
             [regime |-> regimeName, confidence |-> confidence, action |-> "HOLD",
              riskLevel |-> "MEDIUM", positionSizing |-> "SMALL"]
        [] regimeName = "HIGH_VOLATILITY" ->
             [regime |-> regimeName, confidence |-> confidence, action |-> "CAUTION",
              riskLevel |-> "VERY_HIGH", positionSizing |-> "MINIMAL"]

RECURSIVE MaxNum(_)
\* Math.max(...xs): NaN as soon as one argument is NaN
MaxNum(s) ==
  IF Len(s) = 1 THEN s[1]
  ELSE LET r == MaxNum(Tail(s))
       IN  IF IsNaN(s[1]) \/ IsNaN(r) THEN NaN ELSE IF Gt(s[1], r) THEN s[1] ELSE r

-----------------------------------------------------------------------------
(* Candle series.  A series (an array of candles) is held as a record      *)
(*   len    the number of candles,                                         *)
(*   closes the close prices: all of them for a series of at most          *)
(*          MaxCloses candles; a longer series is flat at closes[1] up to  *)
(*          its last candle, which closes at closes[2],                    *)
(*   pts    the feature vectors of the trailing windows, each abstracted   *)
(*          to one point on a line: all len - windowSize of them when      *)
(*          there are at most MaxObs, else the trailing MaxObs.            *)

MaxCloses == 3
MaxObs    == 2
PriceVals   == {100, 120}
FeatureVals == {0, 1}
\* lengths around the limits the code tests: 28 candles give k-means its 8
\* points, slice(-50), minTrainingData, and an array too long to spread
LongLens   == {27, 50, 99, 100, 500020}
LongCloses == {<<100, 100>>, <<100, 120>>}

Min(a, b) == IF a < b THEN a ELSE b

SeqsOf(S, n) == [1..n -> S]

featureCount(len) == IF len > windowSize THEN len - windowSize ELSE 0

ShortSeries ==
  { [len |-> Len(c), closes |-> c, pts |-> <<>>] :
      c \in UNION { SeqsOf(PriceVals, k) : k \in 0..MaxCloses } }
LongSeries ==
  { [len |-> n, closes |-> c, pts |-> p] :
      n \in LongLens, c \in LongCloses,
      p \in UNION { SeqsOf(FeatureVals, k) : k \in 1..MaxObs } }
SeriesSet ==
  { s \in ShortSeries \cup LongSeries : Len(s.pts) = Min(featureCount(s.len), MaxObs) }
\* recentData of predictMarketRegime: "Recent OHLCV data (last 20-50 points)",
\* and whatever shorter or somewhat longer array a caller passes
RecentSeries == { s \in SeriesSet : s.len <= minTrainingData }

\* extractHMMFeatures: one feature vector per index windowSize..len-1
extractHMMFeatures(priceData) ==
  [count |-> featureCount(priceData.len), pts |-> priceData.pts]

\* priceData.slice(-50): the trailing closes and windows stay the trailing ones
sliceLast50(priceData) ==
  IF priceData.len <= 50 THEN priceData
  ELSE [priceData EXCEPT !.len = 50,
                         !.pts = SubSeq(priceData.pts,
                                        Len(priceData.pts) - Min(30, Len(priceData.pts)) + 1,
                                        Len(priceData.pts))]

-----------------------------------------------------------------------------
(* ml-kmeans.  kmeans(data, K) throws when K exceeds the number of points; *)
(* otherwise it returns K centroids and, for every point, the index of its *)
(* nearest centroid.  Its seeding is random: the centroids are an input of *)
(* the model, drawn from CentroidLayouts.                                  *)

CentroidLayouts == { <<0, 1, 2, 3, 4, 5, 6, 7>>, <<7, 6, 5, 4, 3, 2, 1, 0>> }

RECURSIVE nearestFrom(_, _, _, _)
\* index of the first centroid at least distance from point p
nearestFrom(centroids, p, k, best) ==
  IF k >= Len(centroids) THEN best
  ELSE IF Abs(At(centroids, k) - p) < Abs(At(centroids, best) - p)
       THEN nearestFrom(centroids, p, k + 1, k)
       ELSE nearestFrom(centroids, p, k + 1, best)

kmeans(features, K, centroids) ==
  IF K > features.count
  THEN [threw |-> TRUE, error |-> "K should be a positive integer smaller than the number of points"]
  ELSE [threw |-> FALSE,
        centroids |-> centroids,
        clusters  |-> Tab(LAMBDA i : nearestFrom(centroids, At(features.pts, i), 1, 0),
                          Len(features.pts))]

\* Math.max(...observations) spreads the whole array into one call; past the
\* engine's argument limit (about 125000 in V8) the call throws a RangeError.
spreadArgLimit == 125000

-----------------------------------------------------------------------------
(* HMMAnalyzer: the object and its methods.  A method is an operator from  *)
(* the object h (and its arguments) to [threw, error | value, self], self  *)
(* being the object after the call.  null and undefined fields are <<>>.   *)

NewHMMAnalyzer ==
  [isTrained        |-> FALSE,
   transitionMatrix |-> <<>>,
   emissionMatrix   |-> <<>>,
   initialProbs     |-> <<>>,
   numSymbols       |-> 0,
   clusterCenters   |-> <<>>,
   trainingHistory  |-> <<>>]

Params(h) == [A |-> h.transitionMatrix, B |-> h.emissionMatrix,
              pi |-> h.initialProbs, K |-> h.numSymbols]

StateNames == { states[i] : i \in 1..numStates }
indexOf(name) == CHOOSE i \in 0..(numStates - 1) : At(states, i) = name

discretizeObservations(h, features, centroids) ==
  LET kmResult == kmeans(features, numSymbolsK, centroids)
  IN  IF kmResult.threw
      THEN [threw |-> TRUE, error |-> kmResult.error, self |-> h]
      ELSE [threw |-> FALSE,
            self  |-> [h EXCEPT !.clusterCenters = kmResult.centroids],
            observations |-> kmResult.clusters]

\* the mutant: the thresholds themselves pass
heuristicRulesInclusive(avgReturn, variance, priceChange) ==
  IF ~Lt(avgReturn, Rat(1, 100)) /\ ~Lt(priceChange, Rat(5, 100))
  THEN [regime |-> "BULL", confidence |-> Rat(7, 10)]
  ELSE IF ~Gt(avgReturn, Rat(-1, 100)) /\ ~Gt(priceChange, Rat(-5, 100))
  THEN [regime |-> "BEAR", confidence |-> Rat(7, 10)]
  ELSE IF ~Lt(variance, Rat(1, 400))
  THEN [regime |-> "HIGH_VOLATILITY", confidence |-> Rat(8, 10)]
  ELSE [regime |-> "SIDEWAYS", confidence |-> Rat(6, 10)]

\* the rules of heuristicClassification, on the mean return, the variance of
\* the returns (volatility > 0.05 iff variance > 1/400) and the price change
heuristicRules(avgReturn, variance, priceChange) ==
  IF Gt(avgReturn, Rat(1, 100)) /\ Gt(priceChange, Rat(5, 100))
  THEN [regime |-> "BULL", confidence |-> Rat(7, 10)]
  ELSE IF Lt(avgReturn, Rat(-1, 100)) /\ Lt(priceChange, Rat(-5, 100))
  THEN [regime |-> "BEAR", confidence |-> Rat(7, 10)]
  ELSE IF Gt(variance, Rat(1, 400))
  THEN [regime |-> "HIGH_VOLATILITY", confidence |-> Rat(8, 10)]
  ELSE [regime |-> "SIDEWAYS", confidence |-> Rat(6, 10)]

\* closes.length - 1 returns, of which the leading ones of a flat stretch are 0
\* and the others are listed.  ss.mean of an empty array throws;
\* ss.standardDeviation is the population deviation, compared through its
\* square: volatility > 0.05 iff variance > 1/400.
heuristicClassification(recentData) ==
  LET closes  == recentData.closes
      listed  == Tab(LAMBDA i : Rat(closes[i + 2] - closes[i + 1], closes[i + 1]),
                     IF Len(closes) = 0 THEN 0 ELSE Len(closes) - 1)
      zeros   == recentData.len - Len(closes)
      n           == zeros + Len(listed)
      avgReturn   == Div(SumSeq(listed), Num(n))
      variance    == Div(Add(Mul(Num(zeros), Mul(avgReturn, avgReturn)),
                             SumSeq(Tab(LAMBDA i : Mul(Sub(At(listed, i), avgReturn),
                                                       Sub(At(listed, i), avgReturn)),
                                        Len(listed)))),
                         Num(n))
      priceChange == Rat(closes[Len(closes)] - closes[1], closes[1])
      rule == heuristicRules(avgReturn, variance, priceChange)
  IN  IF n = 0
      THEN [threw |-> TRUE, error |-> "mean requires at least one data point"]
      ELSE [threw |-> FALSE,
            value |->
              [currentRegime |-> rule.regime,
               confidence |-> rule.confidence,
               stateProbabilities |-> [r \in {rule.regime} |-> rule.confidence],
               method |-> "HEURISTIC",
               recommendation |->
                 generateRegimeBasedRecommendation(
                   indexOf(rule.regime),
                   Tab(LAMBDA i : IF At(states, i) = rule.regime THEN rule.confidence
                                  ELSE Div(Sub(One, rule.confidence), Num(3)),
                       numStates))]]

\* The observation sequences discretizeObservations returns for the series of
\* SeriesSet.  Training, decoding and the heuristic are functions of their
\* arguments alone; memo holds their results on the arguments that occur.
ObservationSeqs ==
  { kmeans(extractHMMFeatures(s), numSymbolsK, c).clusters :
      s \in { x \in SeriesSet : featureCount(x.len) >= numSymbolsK },
      c \in CentroidLayouts }

\* this.initializeParameters(observations); this.baumWelchTraining(observations)
trainOn(observations) == memo.training[observations]

insufficientDataOffByOne(priceData) == priceData.len <= minTrainingData

\* priceData.length < this.config.minTrainingData
insufficientData(priceData) == priceData.len < minTrainingData

trainModel(h, priceData, centroids) ==
  IF insufficientData(priceData)
  THEN [threw |-> TRUE, error |-> "Insufficient data for HMM training", self |-> h]
  ELSE
    LET features == extractHMMFeatures(priceData)
        d        == discretizeObservations(h, features, centroids)
    IN  IF d.threw THEN d
        ELSE IF features.count > spreadArgLimit        \* initializeParameters
        THEN [threw |-> TRUE, error |-> "RangeError", self |-> d.self]
        ELSE
          LET trainingResult == trainOn(d.observations)
              m == trainingResult.m
          IN  [threw |-> FALSE,
               self  |-> [d.self EXCEPT
                            !.transitionMatrix = m.A,
                            !.emissionMatrix   = m.B,
                            !.initialProbs     = m.pi,
                            !.numSymbols       = m.K,
                            !.isTrained        = TRUE,
                            !.trainingHistory  =
                               Append(@, [dataPoints |-> priceData.len,
                                          iterations |-> trainingResult.iterations,
                                          finalLikelihood |-> trainingResult.likelihood,
                                          convergence |-> trainingResult.converged])],
               value |-> [success |-> TRUE,
                          iterations |-> trainingResult.iterations,
                          likelihood |-> trainingResult.likelihood,
                          converged  |-> trainingResult.converged]]

\* the catch block of predictMarketRegime: a second heuristicClassification,
\* whose own exception leaves the method
heuristicFallback(h, recentData) ==
  LET r == memo.heuristic[recentData]
  IN  IF r.threw THEN [threw |-> TRUE, error |-> r.error, self |-> h]
      ELSE [threw |-> FALSE, value |-> r.value, self |-> h]

\* the prediction object predictMarketRegime builds once the window is
\* discretized, from the model parameters m and the observations
regimePrediction(m, observations) ==
  LET stateSequence == viterbiDecode(m, observations)
      currentState  == stateSequence[Len(stateSequence)]
      stateProbs    == calculateStateProbabilities(m, observations)
      lastProbs     == stateProbs[Len(stateProbs)]
      nextStateProbs == predictNextState(m, currentState)
  IN  [currentRegime |-> At(states, currentState),
       confidence |-> MaxNum(lastProbs),
       stateProbabilities |-> [r \in StateNames |-> At(lastProbs, indexOf(r))],
       nextStateProbabilities |-> [r \in StateNames |-> At(nextStateProbs, indexOf(r))],
       persistence |-> calculateRegimePersistence(m, stateSequence),
       stateSequence |-> Tab(LAMBDA i : At(states, At(stateSequence, i)),
                             Len(stateSequence)),
       recommendation |-> generateRegimeBasedRecommendation(currentState, lastProbs)]

predictFrom(m, observations) == memo.prediction[m][observations]

predictMarketRegime(h, recentData, centroids) ==
  IF ~h.isTrained
  THEN heuristicFallback(h, recentData)
  ELSE
    LET features == extractHMMFeatures(recentData)
        d        == discretizeObservations(h, features, centroids)
    IN  IF d.threw THEN heuristicFallback(h, recentData)
        ELSE [threw |-> FALSE,
              self  |-> d.self,
              value |-> predictFrom(Params(d.self), d.observations)]

-----------------------------------------------------------------------------
(* TraditionalTAAnalyzer.  The indicator library's outputs (RSI, MACD, ...) *)
(* are inputs of the model: a reading r holds the latest value of each     *)
(* series the signal rules look at.  Percentages are integers, the MACD    *)
(* histogram is in hundredths, ADX is a modelled number (NaN when the       *)
(* library's entry is not a number).                                       *)

minimumDataPoints == 50

clamp(score) == IF score > 100 THEN 100 ELSE IF score < 0 THEN 0 ELSE score

generateMASignals(mas) ==
  LET bullishCount == Cardinality({ i \in DOMAIN mas : mas[i].aboveSMA /\ mas[i].aboveEMA })
      bearishCount == Cardinality({ i \in DOMAIN mas : ~mas[i].aboveSMA /\ ~mas[i].aboveEMA })
      alignment == IF bullishCount >= 4 THEN "BULLISH"
                   ELSE IF bearishCount >= 4 THEN "BEARISH"
                   ELSE IF bullishCount > bearishCount THEN "WEAK_BULLISH"
                   ELSE IF bearishCount > bullishCount THEN "WEAK_BEARISH"
                   ELSE "NEUTRAL"
  IN  [data |-> mas,
       alignment |-> alignment,
       signal |-> IF alignment \in {"BULLISH", "WEAK_BULLISH"} THEN "BUY"
                  ELSE IF alignment \in {"BEARISH", "WEAK_BEARISH"} THEN "SELL"
                  ELSE "NEUTRAL"]

generateVolumeSignals(obvTrend, currentVolume, avgVolume) ==
  LET volumeRatio == Rat(currentVolume, avgVolume)
  IN  [ratio |-> volumeRatio,
       trend |-> IF obvTrend = 1 THEN "INCREASING"
                 ELSE IF obvTrend = -1 THEN "DECREASING" ELSE "NEUTRAL",
       confirmation |-> IF Gt(volumeRatio, Rat(3, 2)) THEN "CONFIRMED"
                        ELSE IF Gt(volumeRatio, Rat(6, 5)) THEN "WEAK"
                        ELSE "UNCONFIRMED",
       signal |-> IF obvTrend = 1 /\ Gt(volumeRatio, Rat(6, 5)) THEN "BUY"
                  ELSE IF obvTrend = -1 /\ Gt(volumeRatio, Rat(6, 5)) THEN "SELL"
                  ELSE "NEUTRAL"]

analyzeTrendStrength(currentADX, emaRising) ==
  LET direction == IF emaRising THEN "UP" ELSE "DOWN"
      strength  == IF Gt(currentADX, Num(40)) THEN "VERY_STRONG"
                   ELSE IF Gt(currentADX, Num(25)) THEN "STRONG"
                   ELSE IF Gt(currentADX, Num(15)) THEN "MODERATE"
                   ELSE "WEAK"
  IN  [direction |-> direction, strength |-> strength,
       signal |-> IF strength \in {"STRONG", "VERY_STRONG"}
                  THEN (IF direction = "UP" THEN "BUY" ELSE "SELL")
                  ELSE "NEUTRAL"]

calculateBBPosition(price, bb) == Rat(price - bb.lower, bb.upper - bb.lower)

generateTradingSignals(r) ==
  [rsi |->
     [signal |-> IF r.rsi > 70 THEN "SELL" ELSE IF r.rsi < 30 THEN "BUY" ELSE "NEUTRAL",
      strength |-> IF r.rsi > 80 \/ r.rsi < 20 THEN "STRONG" ELSE "WEAK"],
   macd |->
     [signal |-> IF r.histogram > 0 THEN "BUY" ELSE "SELL",
      strength |-> IF Abs(r.histogram) > 10 THEN "STRONG" ELSE "WEAK"],
   bollingerBands |->
     [signal |-> IF r.price < r.bb.lower THEN "BUY"
                 ELSE IF r.price > r.bb.upper THEN "SELL" ELSE "NEUTRAL",
      position |-> calculateBBPosition(r.price, r.bb)],
   movingAverages |-> generateMASignals(r.mas),
   stochastic |->
     [signal |-> IF r.stochK > 80 THEN "SELL" ELSE IF r.stochK < 20 THEN "BUY"
                 ELSE "NEUTRAL"],
   volume |-> generateVolumeSignals(r.obvTrend, r.currentVolume, r.avgVolume),
   trend  |-> analyzeTrendStrength(r.adx, r.emaRising)]

calculateMomentumScore(signals) ==
  clamp(50
        + (IF signals.rsi.signal = "BUY"
           THEN (IF signals.rsi.strength = "STRONG" THEN 20 ELSE 10)
           ELSE IF signals.rsi.signal = "SELL"
           THEN -(IF signals.rsi.strength = "STRONG" THEN 20 ELSE 10)
           ELSE 0)
        + (IF signals.stochastic.signal = "BUY" THEN 10
           ELSE IF signals.stochastic.signal = "SELL" THEN -10 ELSE 0))

calculateTrendScore(signals, currentADX) ==
  clamp(50
        + (IF signals.movingAverages.alignment = "BULLISH" THEN 25
           ELSE IF signals.movingAverages.alignment = "BEARISH" THEN -25 ELSE 0)
        + (IF signals.macd.signal = "BUY"
           THEN (IF signals.macd.strength = "STRONG" THEN 15 ELSE 8)
           ELSE IF signals.macd.signal = "SELL"
           THEN -(IF signals.macd.strength = "STRONG" THEN 15 ELSE 8)
           ELSE 0)
        + (IF Gt(currentADX, Num(25))
           THEN (IF signals.trend.direction = "UP" THEN 10 ELSE -10)
           ELSE 0))

\* currentATR > avgATR * 1.5 and currentATR < avgATR * 0.5, over integers
calculateVolatilityScore(currentATR, avgATR, signals) ==
  clamp(50
        + (IF Lt(signals.bollingerBands.position, Rat(2, 10)) THEN 15
           ELSE IF Gt(signals.bollingerBands.position, Rat(8, 10)) THEN -15 ELSE 0)
        + (IF 2 * currentATR > 3 * avgATR THEN -10
           ELSE IF 2 * currentATR < avgATR THEN 5 ELSE 0))

calculateVolumeScore(signals) ==
  clamp(50
        + (IF signals.volume.trend = "INCREASING" THEN 15
           ELSE IF signals.volume.trend = "DECREASING" THEN -10 ELSE 0)
        + (IF signals.volume.confirmation = "CONFIRMED" THEN 10 ELSE 0))

calculateTechnicalScore(r, signals) ==
  LET momentum   == calculateMomentumScore(signals)
      trend      == calculateTrendScore(signals, r.adx)
      volatility == calculateVolatilityScore(r.currentATR, r.avgATR, signals)
      volume     == calculateVolumeScore(signals)
  IN  [momentum |-> momentum, trend |-> trend, volatility |-> volatility,
       volume |-> volume,
       overall |-> Rat(momentum * 3 + trend * 4 + volatility * 2 + volume * 1, 10)]

determineOverallSignalExclusive(technicalScore) ==
  LET score == technicalScore.overall
  IN  IF Gt(score, Num(75)) THEN "STRONG_BUY"
      ELSE IF Gt(score, Num(60)) THEN "BUY"
      ELSE IF Gt(score, Num(55)) THEN "WEAK_BUY"
      ELSE IF Gt(score, Num(45)) THEN "NEUTRAL"
      ELSE IF Gt(score, Num(40)) THEN "WEAK_SELL"
      ELSE IF Gt(score, Num(25)) THEN "SELL"
      ELSE "STRONG_SELL"

determineOverallSignal(technicalScore) ==
  LET score == technicalScore.overall
  IN  IF ~Lt(score, Num(75)) /\ ~IsNaN(score) THEN "STRONG_BUY"
      ELSE IF ~Lt(score, Num(60)) /\ ~IsNaN(score) THEN "BUY"
      ELSE IF ~Lt(score, Num(55)) /\ ~IsNaN(score) THEN "WEAK_BUY"
      ELSE IF ~Lt(score, Num(45)) /\ ~IsNaN(score) THEN "NEUTRAL"
      ELSE IF ~Lt(score, Num(40)) /\ ~IsNaN(score) THEN "WEAK_SELL"
      ELSE IF ~Lt(score, Num(25)) /\ ~IsNaN(score) THEN "SELL"
      ELSE "STRONG_SELL"

SignalNames == {"rsi", "macd", "bollingerBands", "movingAverages", "stochastic",
                "volume", "trend"}

\* the mutant: the parts are summed and not averaged over the factors
calculateConfidenceSummed(signals) ==
  LET buySignals  == Cardinality({ s \in SignalNames :
                                     signals[s].signal \in {"BUY", "STRONG_BUY"} })
      sellSignals == Cardinality({ s \in SignalNames :
                                     signals[s].signal \in {"SELL", "STRONG_SELL"} })
      totalSignals == buySignals + sellSignals
      consensus == IF totalSignals > 0
                   THEN Mul(Rat(IF buySignals > sellSignals THEN buySignals
                                ELSE sellSignals, totalSignals), Rat(4, 10))
                   ELSE Zero
      volumePart == IF signals.volume.confirmation = "CONFIRMED" THEN Rat(3, 10)
                    ELSE IF signals.volume.confirmation = "WEAK" THEN Rat(15, 100)
                    ELSE Zero
      trendPart  == IF signals.trend.strength \in {"STRONG", "VERY_STRONG"} THEN Rat(3, 10)
                    ELSE IF signals.trend.strength = "MODERATE" THEN Rat(15, 100)
                    ELSE Zero
      confidence == Add(Add(consensus, volumePart), trendPart)
  IN  IF Gt(confidence, One) THEN One ELSE confidence

calculateConfidence(signals) ==
  LET buySignals  == Cardinality({ s \in SignalNames :
                                     signals[s].signal \in {"BUY", "STRONG_BUY"} })
      sellSignals == Cardinality({ s \in SignalNames :
                                     signals[s].signal \in {"SELL", "STRONG_SELL"} })
      totalSignals == buySignals + sellSignals
      consensus == IF totalSignals > 0
                   THEN Mul(Rat(IF buySignals > sellSignals THEN buySignals
                                ELSE sellSignals, totalSignals), Rat(4, 10))
                   ELSE Zero
      volumePart == IF signals.volume.confirmation = "CONFIRMED" THEN Rat(3, 10)
                    ELSE IF signals.volume.confirmation = "WEAK" THEN Rat(15, 100)
                    ELSE Zero
      trendPart  == IF signals.trend.strength \in {"STRONG", "VERY_STRONG"} THEN Rat(3, 10)
                    ELSE IF signals.trend.strength = "MODERATE" THEN Rat(15, 100)
                    ELSE Zero
      factors    == (IF totalSignals > 0 THEN 1 ELSE 0) + 2
      confidence == Div(Add(Add(consensus, volumePart), trendPart), Num(factors))
  IN  IF IsNaN(confidence) THEN NaN
      ELSE IF Gt(confidence, One) THEN One ELSE confidence

\* atr is the latest ATR, bb the latest Bollinger band; "bb?.lower || ..."
\* takes the fallback for a lower (upper) band of 0
calculatePriceTargets(r, currentPrice) ==
  LET atr == Num(r.currentATR)
      price == Num(currentPrice)
      lower == IF r.bb.lower = 0 THEN Mul(price, Rat(95, 100)) ELSE Num(r.bb.lower)
      upper == IF r.bb.upper = 0 THEN Mul(price, Rat(105, 100)) ELSE Num(r.bb.upper)
  IN  [support    |-> << IF Lt(Sub(price, atr), lower) THEN Sub(price, atr) ELSE lower,
                         Sub(price, Mul(atr, Num(2))) >>,
       resistance |-> << IF Gt(Add(price, atr), upper) THEN Add(price, atr) ELSE upper,
                         Add(price, Mul(atr, Num(2))) >>,
       entry       |-> price,
       stopLoss    |-> Sub(price, Mul(atr, Rat(3, 2))),
       takeProfit1 |-> Add(price, atr),
       takeProfit2 |-> Add(price, Mul(atr, Num(2))),
       riskReward  |-> Div(Mul(atr, Num(2)), Mul(atr, Rat(3, 2)))]

\* ohlcvData is [len, r]: the number of candles and the readings the
\* indicator library gives for them.  calculateAllIndicators ends with
\* calculatePriceStatistics, whose Math.min(...prices) spreads every close.
analyzeTechnicals(ohlcvData) ==
  IF ohlcvData.len < minimumDataPoints
  THEN [threw |-> TRUE,
        error |-> "Insufficient data for technical analysis (minimum 50 data points required)"]
  ELSE IF ohlcvData.len > spreadArgLimit
  THEN [threw |-> TRUE, error |-> "RangeError"]
  ELSE LET signals        == generateTradingSignals(ohlcvData.r)
           technicalScore == calculateTechnicalScore(ohlcvData.r, signals)
       IN  [threw |-> FALSE,
            value |-> [signals |-> signals,
                       technicalScore |-> technicalScore,
                       priceTargets |-> calculatePriceTargets(ohlcvData.r, ohlcvData.r.price),
                       overallSignal |-> determineOverallSignal(technicalScore),
                       confidence |-> calculateConfidence(signals)]]

\* Readings.  Above each moving average or below it, by period 5, 10, 20, 50
\* and 200; SMA(200) and EMA(200) are empty for fewer than 200 candles (no
\* value: hasValue is FALSE) and the comparison with undefined is false.
TALens == {49, 50, 200, 500020}
MAFlags == { <<TRUE, TRUE, TRUE, TRUE>>, <<TRUE, TRUE, TRUE, FALSE>>,
             <<TRUE, FALSE, FALSE, FALSE>>, <<FALSE, FALSE, FALSE, FALSE>> }
masOf(len, flags) ==
  Tab(LAMBDA i : LET above == IF i < 4 THEN flags[i + 1] ELSE len >= 200 /\ flags[4]
                 IN  [hasValue |-> i < 4 \/ len >= 200,
                      aboveSMA |-> above, aboveEMA |-> above], 5)

RsiVals       == {15, 25, 50, 85}
StochVals     == {10, 50, 90}
HistogramVals == {-20, 0, 20}
AdxVals       == {NaN, Num(20), Num(30)}
BBCases       == {<<85, 90, 110>>, <<100, 90, 110>>, <<115, 90, 110>>, <<100, 100, 100>>}
AtrCases      == {<<2, 1>>, <<1, 1>>, <<0, 1>>}
ObvTrends     == {-1, 1}
VolumeCases   == {<<13, 10>>, <<16, 10>>, <<0, 0>>}

ReadingOf(len, rsi, stochK, histogram, adx, emaRising, bbCase, atr, obvTrend, vol, flags) ==
  [rsi |-> rsi, stochK |-> stochK, histogram |-> histogram, adx |-> adx,
   emaRising |-> emaRising, price |-> bbCase[1],
   bb |-> [lower |-> bbCase[2], upper |-> bbCase[3]],
   currentATR |-> atr[1], avgATR |-> atr[2],
   obvTrend |-> obvTrend, currentVolume |-> vol[1], avgVolume |-> vol[2],
   mas |-> masOf(len, flags)]

Readings(len) ==
  { ReadingOf(len, rsi, stochK, histogram, adx, emaRising, bbCase, atr, obvTrend, vol, flags) :
      rsi \in RsiVals, stochK \in StochVals, histogram \in HistogramVals,
      adx \in AdxVals, emaRising \in BOOLEAN, bbCase \in BBCases, atr \in AtrCases,
      obvTrend \in ObvTrends, vol \in VolumeCases, flags \in MAFlags }

-----------------------------------------------------------------------------
(* MLTechnicalAnalyzer.runHMMAnalysis: what one analysis hands back *)

\* the catch block of runHMMAnalysis
hmmAnalysisError == [currentRegime |-> "UNKNOWN", confidence |-> Rat(1, 2), method |-> "ERROR"]

\* "if (moreData && moreData.length > primaryData.length) extendedData = moreData";
\* moreData is <<>> when collectHistoricalData threw or returned nothing
extendData(primaryData, moreData) ==
  IF primaryData.len < 200 /\ moreData # <<>> /\ moreData.len > primaryData.len
  THEN moreData ELSE primaryData

-----------------------------------------------------------------------------
(* MLTechnicalAnalyzer: analyzeToken.  priceData maps a timeframe to what   *)
(* collectMultiTimeframeData holds for it: [success, data], data being <<>> *)
(* for null.  The regression's prediction is an input, like the indicator  *)
(* library's readings.                                                     *)

Timeframes == <<"5m", "15m", "1h", "4h", "1d">>
TimeframeNames == { Timeframes[i] : i \in DOMAIN Timeframes }

\* options.primaryTimeframe || '1h'
primaryTF == "1h"

insufficientPrimaryBelow20(primaryData) == primaryData = <<>> \/ primaryData.len < 20

\* !primaryData || primaryData.length < 50
insufficientPrimary(primaryData) == primaryData = <<>> \/ primaryData.len < 50

\* Math.min and Math.max of two numbers
MathMin(x, y) == IF IsNaN(x) \/ IsNaN(y) THEN NaN ELSE IF Lt(y, x) THEN y ELSE x
MathMax(x, y) == IF IsNaN(x) \/ IsNaN(y) THEN NaN ELSE IF Gt(y, x) THEN y ELSE x

\* the mean of the first five closes against the mean of the last five, of a
\* series that is flat at closes[1] up to its last candle at closes[2]
identifyTrend(data) ==
  IF data.len < 10 THEN "NEUTRAL"
  ELSE LET first  == Num(data.closes[1])
           last   == Rat(4 * data.closes[1] + data.closes[2], 5)
           change == Div(Sub(last, first), first)
       IN  IF Gt(change, Rat(2, 100)) THEN "BULLISH"
           ELSE IF Lt(change, Rat(-2, 100)) THEN "BEARISH"
           ELSE "NEUTRAL"

analyzeMultiTimeframeByMajority(priceData) ==
  LET results == [tf \in { x \in TimeframeNames :
                             /\ priceData[x].success
                             /\ priceData[x].data # <<>>
                             /\ priceData[x].data.len >= 20 } |->
                    [trend |-> identifyTrend(priceData[tf].data), strength |-> Rat(1, 2)]]
      bullishCount == Cardinality({ tf \in DOMAIN results : results[tf].trend = "BULLISH" })
      bearishCount == Cardinality({ tf \in DOMAIN results : results[tf].trend = "BEARISH" })
  IN  [individual |-> results,
       consensus  |-> IF bullishCount > bearishCount THEN "BULLISH"
                      ELSE IF bearishCount > bullishCount THEN "BEARISH"
                      ELSE "NEUTRAL",
       strength   |-> Rat(Abs(bullishCount - bearishCount), Len(Timeframes)),
       alignment  |-> "MIXED"]

analyzeMultiTimeframe(priceData) ==
  LET results == [tf \in { x \in TimeframeNames :
                             /\ priceData[x].success
                             /\ priceData[x].data # <<>>
                             /\ priceData[x].data.len >= 20 } |->
                    [trend |-> identifyTrend(priceData[tf].data), strength |-> Rat(1, 2)]]
      bullishCount == Cardinality({ tf \in DOMAIN results : results[tf].trend = "BULLISH" })
      bearishCount == Cardinality({ tf \in DOMAIN results : results[tf].trend = "BEARISH" })
  IN  [individual |-> results,
       consensus  |-> IF bullishCount >= bearishCount + 2 THEN "BULLISH"
                      ELSE IF bearishCount >= bullishCount + 2 THEN "BEARISH"
                      ELSE "NEUTRAL",
       strength   |-> Rat(Abs(bullishCount - bearishCount), Len(Timeframes)),
       alignment  |-> IF bullishCount = 0 /\ bearishCount = 0 THEN "NEUTRAL"
                      ELSE IF bullishCount > bearishCount * 2 THEN "STRONG_BULLISH"
                      ELSE IF bearishCount > bullishCount * 2 THEN "STRONG_BEARISH"
                      ELSE "MIXED"]

\* ss.standardDeviation(returns) < 0.02, through the variance of the returns
\* of a series of at least two candles that is flat up to its last candle
lowVolatility(data) ==
  LET n        == Num(data.len - 1)
      r        == Rat(data.closes[2] - data.closes[1], data.closes[1])
      mean     == Div(r, n)
      variance == Sub(Div(Mul(r, r), n), Mul(mean, mean))
  IN  Lt(variance, Rat(1, 2500))

\* the features calculateMLConfidence reads; "x || d" takes d for 0 and NaN
extractFeatures(primaryData, r) ==
  [rsi           |-> IF r.rsi = 0 THEN 50 ELSE r.rsi,
   macdHistogram |-> r.histogram,
   adx           |-> IF IsNaN(r.adx) \/ r.adx = Zero THEN Num(25) ELSE r.adx,
   volumeRatio   |-> Rat(r.currentVolume, r.avgVolume),
   lowVolatility |-> lowVolatility(primaryData)]

\* x.length >= 10 holds: the primary series has 50 candles or more
predictPriceDirection(nextPrediction, currentPrice) ==
  LET change == Rat(nextPrediction - currentPrice, currentPrice)
      size   == IF Lt(change, Zero) THEN Neg(change) ELSE change
  IN  [direction   |-> IF Gt(change, Rat(1, 100)) THEN "UP"
                       ELSE IF Lt(change, Rat(-1, 100)) THEN "DOWN" ELSE "NEUTRAL",
       probability |-> MathMin(Rat(9, 10), Add(Rat(1, 2), Mul(size, Num(10))))]

calculateMLConfidence(features) ==
  LET confidence ==
        Add(Add(Add(Add(Rat(1, 2),
            IF Gt(features.volumeRatio, Rat(3, 2)) THEN Rat(1, 10) ELSE Zero),
            IF \/ features.rsi > 70 /\ features.macdHistogram < 0
               \/ features.rsi < 30 /\ features.macdHistogram > 0
            THEN Rat(15, 100) ELSE Zero),
            IF Gt(features.adx, Num(25)) THEN Rat(1, 10) ELSE Zero),
            IF features.lowVolatility THEN Rat(5, 100) ELSE Zero)
  IN  MathMin(Rat(95, 100), MathMax(Rat(1, 10), confidence))

runMLModels(features, nextPrediction, currentPrice) ==
  [priceDirection |-> predictPriceDirection(nextPrediction, currentPrice),
   confidence     |-> calculateMLConfidence(features)]

\* runHMMAnalysis of one call that no other call interleaves with: c1 and c2
\* are the centroids k-means lands on in trainModel and predictMarketRegime
runHMMAnalysis(h, primaryData, moreData, c1, c2) ==
  LET extendedData == extendData(primaryData, moreData)
      trained == IF extendedData.len >= 100
                 THEN trainModel(h, extendedData, c1).self ELSE h
      p == predictMarketRegime(trained, sliceLast50(extendedData), c2)
  IN  IF p.threw THEN [self |-> p.self, regime |-> hmmAnalysisError]
      ELSE [self |-> p.self, regime |-> p.value]

scoreTraditionalAnalysis(analysis) == analysis.technicalScore.overall

scoreMLAnalysisDoubled(ml) ==
  LET directionScore == IF ml.priceDirection.direction = "UP" THEN 150
                        ELSE IF ml.priceDirection.direction = "DOWN" THEN 50 ELSE 100
  IN  Mul(Num(directionScore), ml.confidence)

scoreMLAnalysis(ml) ==
  LET directionScore == IF ml.priceDirection.direction = "UP" THEN 75
                        ELSE IF ml.priceDirection.direction = "DOWN" THEN 25 ELSE 50
  IN  Mul(Num(directionScore), ml.confidence)

scoreMultiTimeframe(mtf) ==
  LET consensusScore == IF mtf.consensus = "BULLISH" THEN 75
                        ELSE IF mtf.consensus = "BEARISH" THEN 25 ELSE 50
  IN  Mul(Num(consensusScore), mtf.strength)

scorePatterns == Num(50)

\* "hmm.regime.confidence || 0.5" takes 0.5 for 0 and NaN
scoreHMMAnalysis(hmmResult) ==
  LET regime     == hmmResult.regime.currentRegime
      confidence == IF IsNaN(hmmResult.regime.confidence) \/ hmmResult.regime.confidence = Zero
                    THEN Rat(1, 2) ELSE hmmResult.regime.confidence
      baseScore  == IF regime = "BULL" THEN 75
                    ELSE IF regime = "BEAR" THEN 25
                    ELSE IF regime = "SIDEWAYS" THEN 45
                    ELSE IF regime = "HIGH_VOLATILITY" THEN 35
                    ELSE 50
      adjustment == Mul(Sub(confidence, Rat(1, 2)), Num(20))
  IN  MathMax(Zero, MathMin(Num(100), Add(Num(baseScore), adjustment)))

\* determineOverallSignal of MLTechnicalAnalyzer
combinedOverallSignal(score) ==
  IF ~Lt(score, Num(75)) /\ ~IsNaN(score) THEN "STRONG_BUY"
  ELSE IF ~Lt(score, Num(60)) /\ ~IsNaN(score) THEN "BUY"
  ELSE IF ~Lt(score, Num(55)) /\ ~IsNaN(score) THEN "WEAK_BUY"
  ELSE IF ~Lt(score, Num(45)) /\ ~IsNaN(score) THEN "NEUTRAL"
  ELSE IF ~Lt(score, Num(40)) /\ ~IsNaN(score) THEN "WEAK_SELL"
  ELSE IF ~Lt(score, Num(25)) /\ ~IsNaN(score) THEN "SELL"
  ELSE "STRONG_SELL"

calculateOverallConfidence(traditional, ml) ==
  Add(Mul(traditional.confidence, Rat(6, 10)), Mul(ml.confidence, Rat(4, 10)))

\* signal.includes('BUY'), signal.includes('SELL')
includesBUY(signal)  == signal \in {"STRONG_BUY", "BUY", "WEAK_BUY"}
includesSELL(signal) == signal \in {"STRONG_SELL", "SELL", "WEAK_SELL"}

calculatePositionSize(signal, confidence) ==
  IF signal = "STRONG_BUY" /\ Gt(confidence, Rat(8, 10)) THEN "LARGE"
  ELSE IF includesBUY(signal) /\ Gt(confidence, Rat(7, 10)) THEN "NORMAL"
  ELSE IF includesBUY(signal) THEN "SMALL"
  ELSE IF includesSELL(signal) THEN "REDUCE"
  ELSE "HOLD"

generateMLRecommendation(signal, score, confidence) ==
  [action |-> IF includesBUY(signal) THEN "BUY"
              ELSE IF includesSELL(signal) THEN "SELL" ELSE "HOLD",
   signal |-> signal, score |-> score, confidence |-> confidence,
   positionSize |-> calculatePositionSize(signal, confidence)]

combineAnalyses(traditional, ml, multiTimeframe, hmmResult) ==
  LET scores == [traditional    |-> scoreTraditionalAnalysis(traditional),
                 ml             |-> scoreMLAnalysis(ml),
                 multiTimeframe |-> scoreMultiTimeframe(multiTimeframe),
                 patterns       |-> scorePatterns,
                 hmm            |-> scoreHMMAnalysis(hmmResult)]
      overallScore == Add(Add(Add(Add(Mul(scores.traditional, Rat(35, 100)),
                                      Mul(scores.ml, Rat(25, 100))),
                                  Mul(scores.multiTimeframe, Rat(15, 100))),
                              Mul(scores.patterns, Rat(1, 10))),
                          Mul(scores.hmm, Rat(15, 100)))
  IN  [overallSignal |-> combinedOverallSignal(overallScore),
       overallScore  |-> overallScore,
       confidence    |-> calculateOverallConfidence(traditional, ml),
       recommendation |->
         generateMLRecommendation(combinedOverallSignal(overallScore), overallScore,
                                  calculateOverallConfidence(traditional, ml)),
       scores        |-> scores,
       analyses      |-> [traditional |-> traditional, ml |-> ml,
                          multiTimeframe |-> multiTimeframe]]

-----------------------------------------------------------------------------

MaxTrainings == 2     \* trainingHistory grows without limit in the source

Tokens == {"tokenA", "tokenB"}

NoCall == [op |-> "none", len |-> 0, threw |-> FALSE, error |-> "", value |-> <<>>]

Outcome(op, priceData, r) ==
  [op |-> op, len |-> priceData.len, threw |-> r.threw,
   error |-> IF r.threw THEN r.error ELSE "",
   value |-> IF r.threw THEN <<>> ELSE r.value]

NoAnalysis == [paramsOf |-> "none", regime |-> <<>>]
TAIdle     == [phase |-> "idle", len |-> 0, threw |-> FALSE, error |-> "", value |-> <<>>]
ATIdle     == [phase |-> "idle"]
BotIdle    == [phase |-> "idle"]
BWIdle     == [phase |-> "idle"]
NoApplication == [op |-> "none"]
\* new PriceDataCollector(): an empty cache; no file stored yet
PDCNew     == [dataCache |-> <<>>, localStorage |-> <<>>, now |-> 0, last |-> <<>>]

MLIdle ==
  /\ pc = [t \in Tokens |-> "idle"]
  /\ tokenData = [t \in Tokens |-> <<>>]
  /\ hmmAnalysis = [t \in Tokens |-> NoAnalysis]
  /\ trainedFor = "none"

-----------------------------------------------------------------------------
(* One HMMAnalyzer and its callers' train and predict calls *)

NoMemo == [heuristic |-> <<>>, training |-> <<>>, prediction |-> <<>>]

Memo ==
  \E training \in {[o \in ObservationSeqs |->
                      baumWelchTraining(initializeParameters(o), o)]} :
    memo = [heuristic  |-> [s \in RecentSeries |-> heuristicClassification(s)],
            training   |-> training,
            prediction |-> [m \in { training[o].m : o \in ObservationSeqs } |->
                              [o \in ObservationSeqs |-> regimePrediction(m, o)]]]

Init ==
  /\ hmm = NewHMMAnalyzer
  /\ lastCall = NoCall
  /\ MLIdle
  /\ ta = TAIdle
  /\ at = ATIdle
  /\ pdc = PDCNew
  /\ bot = BotIdle
  /\ bw = BWIdle
  /\ app = NoApplication
  /\ Memo

TrainModel ==
  \E priceData \in SeriesSet, centroids \in CentroidLayouts :
    \E r \in {trainModel(hmm, priceData, centroids)} :
        /\ r.threw \/ Len(hmm.trainingHistory) < MaxTrainings
        /\ hmm' = r.self
        /\ lastCall' = Outcome("trainModel", priceData, r)
        /\ UNCHANGED <<pc, tokenData, hmmAnalysis, trainedFor, ta, memo, bw, app, at, pdc, bot>>

PredictMarketRegime ==
  \E recentData \in RecentSeries, centroids \in CentroidLayouts :
    \E r \in {predictMarketRegime(hmm, recentData, centroids)} :
        /\ hmm' = r.self
        /\ lastCall' = Outcome("predictMarketRegime", recentData, r)
        /\ UNCHANGED <<pc, tokenData, hmmAnalysis, trainedFor, ta, memo, bw, app, at, pdc, bot>>

Next == TrainModel \/ PredictMarketRegime

Spec == Init /\ [][Next]_vars

-----------------------------------------------------------------------------
(* MLTechnicalAnalyzer: analyzeToken calls for several tokens on the one   *)
(* analyzer, hence on its one hmmAnalyzer.  A call runs until it awaits;   *)
(* calls for other tokens run in between.  trainModel and                  *)
(* predictMarketRegime hold no await, so each runs as a whole.             *)

MLSeries ==
  { s \in SeriesSet : /\ s.len \in {27, 50, 100}
                      /\ s.closes = <<100, 120>>
                      /\ \A i \in 2..Len(s.pts) : s.pts[i] = 1 }

\* recentData = extendedData.slice(-50); predictMarketRegime(recentData); return
PredictRegimeFor(t, extendedData, h) ==
  \E centroids \in CentroidLayouts :
    \E r \in {predictMarketRegime(h, sliceLast50(extendedData), centroids)} :
        /\ hmm' = r.self
        /\ hmmAnalysis' =
             [hmmAnalysis EXCEPT ![t] =
                IF r.threw THEN [paramsOf |-> "none", regime |-> hmmAnalysisError]
                ELSE [paramsOf |-> IF "method" \in DOMAIN r.value THEN "none"
                                   ELSE trainedFor,
                      regime |-> r.value]]
        /\ pc' = [pc EXCEPT ![t] = "done"]

\* analyzeToken up to runHMMAnalysis' await of collectHistoricalData
AnalyzeToken(t) ==
  /\ pc[t] = "idle"
  /\ \E primaryData \in MLSeries :
       IF primaryData.len < 50
       THEN /\ pc' = [pc EXCEPT ![t] = "failed"]
            /\ UNCHANGED tokenData
       ELSE /\ pc' = [pc EXCEPT ![t] = "awaitHistory"]
            /\ tokenData' = [tokenData EXCEPT ![t] = primaryData]
  /\ UNCHANGED <<hmm, lastCall, hmmAnalysis, trainedFor, ta, memo, bw, app, at, pdc, bot>>

\* collectHistoricalData settles: extend, then train (and await) or predict
HistoryArrives(t) ==
  /\ pc[t] = "awaitHistory"
  /\ \E moreData \in MLSeries \cup {<<>>} :
       LET extendedData == extendData(tokenData[t], moreData)
       IN  /\ tokenData' = [tokenData EXCEPT ![t] = extendedData]
           /\ IF extendedData.len >= 100
              THEN \E centroids \in CentroidLayouts :
                     \E r \in {trainModel(hmm, extendedData, centroids)} :
                         /\ hmm' = r.self
                         /\ trainedFor' = IF r.threw THEN trainedFor ELSE t
                         /\ pc' = [pc EXCEPT ![t] = "awaitTrain"]
                         /\ UNCHANGED hmmAnalysis
              ELSE /\ PredictRegimeFor(t, extendedData, hmm)
                   /\ UNCHANGED trainedFor
  /\ UNCHANGED <<lastCall, ta, memo, bw, app, at, pdc, bot>>

\* trainModel's promise settles (its error, if any, is swallowed): predict
TrainingSettles(t) ==
  /\ pc[t] = "awaitTrain"
  /\ PredictRegimeFor(t, tokenData[t], hmm)
  /\ UNCHANGED <<lastCall, tokenData, trainedFor, ta, memo, bw, app, at, pdc, bot>>

InitML == Init

NextML == \E t \in Tokens : AnalyzeToken(t) \/ HistoryArrives(t) \/ TrainingSettles(t)

SpecML == InitML /\ [][NextML]_vars

-----------------------------------------------------------------------------
(* TraditionalTAAnalyzer: analyzeTechnicals calls and their outcomes *)

TAOutcome(len, res) ==
  [phase |-> "returned", len |-> len, threw |-> res.threw,
   error |-> IF res.threw THEN res.error ELSE "",
   value |-> IF res.threw THEN <<>> ELSE res.value]

\* one call, on any number of candles of TALens and any reading of
\* Readings(len); below the minimum the indicator library is not called, and
\* past the argument limit the call ends before its readings are looked at
AnalyzeTechnicals ==
  /\ ta.phase = "idle"
  /\ \E len \in TALens :
       IF len < minimumDataPoints \/ len > spreadArgLimit
       THEN ta' = TAOutcome(len, analyzeTechnicals([len |-> len, r |-> <<>>]))
       ELSE \E rsi \in RsiVals, stochK \in StochVals, histogram \in HistogramVals,
               adx \in AdxVals, emaRising \in BOOLEAN, bbCase \in BBCases,
               atr \in AtrCases, obvTrend \in ObvTrends, vol \in VolumeCases,
               flags \in MAFlags :
              \E res \in {analyzeTechnicals(
                             [len |-> len,
                              r |-> ReadingOf(len, rsi, stochK, histogram, adx, emaRising,
                                              bbCase, atr, obvTrend, vol, flags)])} :
                ta' = TAOutcome(len, res)
  /\ UNCHANGED <<hmm, lastCall, pc, tokenData, hmmAnalysis, trainedFor, memo, bw, app, at, pdc, bot>>

\* the caller takes the analysis; the analyzer keeps nothing of it
TakeAnalysis ==
  /\ ta.phase = "returned"
  /\ ta' = TAIdle
  /\ UNCHANGED <<hmm, lastCall, pc, tokenData, hmmAnalysis, trainedFor, memo, bw, app, at, pdc, bot>>

\* analyzeTechnicals neither trains nor decodes
InitTA ==
  /\ hmm = NewHMMAnalyzer
  /\ lastCall = NoCall
  /\ MLIdle
  /\ ta = TAIdle
  /\ at = ATIdle
  /\ pdc = PDCNew
  /\ bot = BotIdle
  /\ bw = BWIdle
  /\ app = NoApplication
  /\ memo = NoMemo

NextTA == AnalyzeTechnicals \/ TakeAnalysis

SpecTA == InitTA /\ [][NextTA]_vars

-----------------------------------------------------------------------------
(* MLTechnicalAnalyzer: one analyzeToken call on a new analyzer, from the   *)
(* collected price data to the combined analysis or the error              *)

Failed == [success |-> FALSE, data |-> <<>>]
Collected(data) == [success |-> TRUE, data |-> data]
\* n candles flat at 100 up to the last one
Candles(n, last) == [len |-> n, closes |-> <<100, last>>, pts |-> <<>>]

\* what collectHistoricalData gives per timeframe: a failure, or candles of a
\* rising, falling or level series, 19 or 20 of them or more
TFOutcomes(tf) ==
  IF tf = primaryTF THEN {Failed} \cup { Collected(s) : s \in MLSeries }
  ELSE IF tf = "5m"
  THEN {Failed, Collected(Candles(50, 120)), Collected(Candles(50, 80)),
        Collected(Candles(19, 120)), Collected(Candles(20, 110))}
  ELSE IF tf = "15m"
  THEN {Failed, Collected(Candles(100, 120)), Collected(Candles(100, 80))}
  ELSE IF tf = "4h" THEN {Failed, Collected(Candles(100, 120))}
  ELSE {Failed, Collected(Candles(100, 80))}

Reading(len, rsi, adx, vol, flags) ==
  ReadingOf(len, rsi, 10, 20, adx, TRUE, <<85, 90, 110>>, <<2, 1>>, -1, vol, flags)

\* five of Readings(len), with overall scores of 60, 75 and below
ATReadings(len) ==
  { Reading(len, 15, Num(30), <<16, 10>>, <<FALSE, FALSE, FALSE, FALSE>>),
    ReadingOf(len, 15, 10, 20, Num(30), TRUE, <<85, 90, 110>>, <<2, 1>>, 1, <<16, 10>>,
              <<TRUE, TRUE, TRUE, TRUE>>),
    Reading(len, 15, Num(20), <<0, 0>>, <<TRUE, TRUE, TRUE, TRUE>>),
    Reading(len, 85, Num(30), <<16, 10>>, <<TRUE, TRUE, TRUE, TRUE>>),
    Reading(len, 85, NaN, <<13, 10>>, <<FALSE, FALSE, FALSE, FALSE>>) }

\* regression.predict(x.length) for a current price
NextPredictions(currentPrice) == {currentPrice - 6, currentPrice + 1, currentPrice + 6}

CollectMultiTimeframeData ==
  /\ at.phase = "idle"
  /\ \E p5m \in TFOutcomes("5m"), p15m \in TFOutcomes("15m"), p1h \in TFOutcomes("1h"),
        p4h \in TFOutcomes("4h"), p1d \in TFOutcomes("1d") :
       at' = [phase |-> "collected",
              priceData |-> ("5m" :> p5m) @@ ("15m" :> p15m) @@ ("1h" :> p1h)
                              @@ ("4h" :> p4h) @@ ("1d" :> p1d)]
  /\ UNCHANGED <<hmm, lastCall, pc, tokenData, hmmAnalysis, trainedFor, ta, memo, bw, app, pdc, bot>>

\* analyzeToken from the primary-timeframe check to analyzeMultiTimeframe
AnalyzePrimary ==
  /\ at.phase = "collected"
  /\ LET primaryData == at.priceData[primaryTF].data
     IN  IF insufficientPrimary(primaryData)
         THEN at' = [phase |-> "failed", priceData |-> at.priceData,
                     error |-> "Insufficient data for 1h timeframe analysis"]
         ELSE \E r \in ATReadings(primaryData.len),
                 nextPrediction \in NextPredictions(primaryData.closes[Len(primaryData.closes)]) :
                \E traditional \in {analyzeTechnicals([len |-> primaryData.len, r |-> r])} :
                  IF traditional.threw
                  THEN at' = [phase |-> "failed", priceData |-> at.priceData,
                              error |-> traditional.error]
                  ELSE at' = [phase |-> "analyzed",
                              primaryData |-> primaryData,
                              traditional |-> traditional.value,
                              ml |-> runMLModels(extractFeatures(primaryData, r),
                                                 nextPrediction,
                                                 primaryData.closes[Len(primaryData.closes)]),
                              multiTimeframe |-> analyzeMultiTimeframe(at.priceData)]
  /\ UNCHANGED <<hmm, lastCall, pc, tokenData, hmmAnalysis, trainedFor, ta, memo, bw, app, pdc, bot>>

\* runHMMAnalysis, then combineAnalyses and the return
CombineAnalyses ==
  /\ at.phase = "analyzed"
  /\ \E moreData \in MLSeries \cup {<<>>}, c1 \in CentroidLayouts, c2 \in CentroidLayouts :
       \E h \in {runHMMAnalysis(hmm, at.primaryData, moreData, c1, c2)} :
         /\ hmm' = h.self
         /\ at' = [phase |-> "returned",
                   primaryData |-> at.primaryData,
                   value |-> combineAnalyses(at.traditional, at.ml, at.multiTimeframe,
                                             [regime |-> h.regime])]
  /\ UNCHANGED <<lastCall, pc, tokenData, hmmAnalysis, trainedFor, ta, memo, bw, app, pdc, bot>>

InitAT == Init

NextAT == CollectMultiTimeframeData \/ AnalyzePrimary \/ CombineAnalyses

SpecAT == InitAT /\ [][NextAT]_vars

-----------------------------------------------------------------------------
(* PriceDataCollector.collectHistoricalData and its cache.  Times are in   *)
(* milliseconds; a series is known by the time it was fetched and its      *)
(* length.                                                                 *)

cacheTimeout    == 5 * 60 * 1000
localStorageAge == 60 * 60 * 1000

\* the clock moves by ClockStep, to MaxNow at most
ClockStep == 150000
MaxNow    == 4 * ClockStep

CacheTokens     == {"tokenA"}
CacheTimeframes == {"1h", "5m"}
\* analyzeToken asks for 100 candles of 1h and runHMMAnalysis for 300;
\* collectMultiTimeframeData asks for 50 candles of 5m
CacheLimits(timeframe) == IF timeframe = "1h" THEN {100, 300} ELSE {50}

\* `${tokenAddress}_${timeframe}_${limit}`
cacheKey(tokenAddress, timeframe, limit) == <<tokenAddress, timeframe, limit>>

\* `${tokenAddress}_${timeframe}.json`
localFile(tokenAddress, timeframe) == <<tokenAddress, timeframe>>

Series(fetchedAt, limit) == [fetchedAt |-> fetchedAt, len |-> limit]
EmptySeries == [fetchedAt |-> 0, len |-> 0]

\* what the providers answer to one request: Birdeye returns candles, an
\* empty item list, or fails; DexScreener is asked after a Birdeye failure;
\* the synthetic generator after that, and it always returns limit candles
ProviderOutcomes ==
  { [birdeye |-> "data",  dexscreener |-> "unasked"],
    [birdeye |-> "empty", dexscreener |-> "unasked"],
    [birdeye |-> "fail",  dexscreener |-> "data"],
    [birdeye |-> "fail",  dexscreener |-> "fail"] }

contactedBy(o) ==
  {"birdeye"} \cup (IF o.birdeye = "fail" THEN {"dexscreener"} ELSE {})
              \cup (IF o.birdeye = "fail" /\ o.dexscreener = "fail" THEN {"jupiter"} ELSE {})

fetched(o, now, limit) ==
  IF o.birdeye = "empty" THEN EmptySeries ELSE Series(now, limit)

\* the cache lookup at the head of collectHistoricalData
cacheHit(p, key) ==
  /\ key \in DOMAIN p.dataCache
  /\ p.now - p.dataCache[key].timestamp < cacheTimeout

\* loadFromLocalStorage: the file's data unless it is an hour old, else null
loadFromLocalStorage(p, file) ==
  IF file \in DOMAIN p.localStorage
       /\ p.now - p.localStorage[file].lastUpdated < localStorageAge
  THEN p.localStorage[file].data
  ELSE EmptySeries

Put(f, k, v) == [x \in DOMAIN f \cup {k} |-> IF x = k THEN v ELSE f[x]]

\* one call: its result (a series or a throw), the providers it contacted,
\* and the collector after it
collectHistoricalData(p, tokenAddress, timeframe, limit, o) ==
  LET key  == cacheKey(tokenAddress, timeframe, limit)
      file == localFile(tokenAddress, timeframe)
      call == [tokenAddress |-> tokenAddress, timeframe |-> timeframe, limit |-> limit]
  IN  IF cacheHit(p, key)
      THEN [p EXCEPT !.last = [call |-> call, from |-> "cache", contacted |-> {},
                               threw |-> FALSE, data |-> p.dataCache[key].data]]
      ELSE LET data == fetched(o, p.now, limit)
           IN  IF data.len > 0
               THEN [p EXCEPT !.dataCache = Put(@, key, [data |-> data, timestamp |-> p.now]),
                              !.localStorage = Put(@, file, [data |-> data, lastUpdated |-> p.now]),
                              !.last = [call |-> call, from |-> "provider",
                                        contacted |-> contactedBy(o),
                                        threw |-> FALSE, data |-> data]]
               ELSE LET localData == loadFromLocalStorage(p, file)
                    IN  [p EXCEPT !.last = [call |-> call,
                                            from |-> IF localData.len > 0 THEN "local" ELSE "none",
                                            contacted |-> contactedBy(o),
                                            threw |-> localData.len = 0,
                                            data |-> localData]]

CollectHistoricalData ==
  /\ \E tokenAddress \in CacheTokens, timeframe \in CacheTimeframes, o \in ProviderOutcomes :
       \E limit \in CacheLimits(timeframe) :
         pdc' = collectHistoricalData(pdc, tokenAddress, timeframe, limit, o)
  /\ UNCHANGED <<hmm, lastCall, pc, tokenData, hmmAnalysis, trainedFor, ta, memo, bw, app, at, bot>>

\* time passes between calls
ClockAdvances ==
  /\ pdc.now < MaxNow
  /\ pdc' = [pdc EXCEPT !.now = @ + ClockStep]
  /\ UNCHANGED <<hmm, lastCall, pc, tokenData, hmmAnalysis, trainedFor, ta, memo, bw, app, at, bot>>

InitCache == InitTA

NextCache == CollectHistoricalData \/ ClockAdvances

SpecCache == InitCache /\ [][NextCache]_vars

-----------------------------------------------------------------------------
(* The limit-order bots: limitorder-raydium.js, its configured copy, and   *)
(* the two Jupiter bots (part_003, part_004).  Prices are in USD units,    *)
(* wallet balances in lamports.                                            *)

\* botConfig
TARGET_BUY_PRICE_USD  == 100
TARGET_SELL_PRICE_USD == 150
STOP_LOSS_PERCENTAGE  == 10
AMOUNT_TO_TRADE       == 1
lamportsPerSol        == 1000000000

BotVariants == {"limitorder-raydium.js", "limitorder-raydium-configured.js",
                "part_003", "part_004"}
RaydiumVariants == {"limitorder-raydium.js", "limitorder-raydium-configured.js"}

\* fetchTokenPriceFromDex / fetchTokenPrice: a price, or null
NoPrice      == -1
PolledPrices == {NoPrice, 72, 80, 90, 100, 120, 150}

\* connection.getBalance: lamports, or a failed request
BalanceError == -1
Balances     == {BalanceError, 0, 999999999, 1000000000, 2000000000}

\* the token amount the wallet holds, or a failed request
TokenBalances == {BalanceError, 0, 500}

\* how the swap goes once it is attempted: sent, no quote, no transaction
\* for the quote, or a transaction that fails when sent
SwapOutcomes == {"sent", "noQuote", "noTransaction", "sendFailed"}

\* the mutant: every balance passes
checkWalletBalanceAlways(lamports) == TRUE

\* sol >= AMOUNT_TO_TRADE, for sol = lamports / 1e9
checkWalletBalance(lamports) == lamports >= AMOUNT_TO_TRADE * lamportsPerSol

\* one loop iteration: the loop, the price polled, whether it triggered,
\* the balance read (if one was), whether a swap was quoted and submitted,
\* and how the iteration ended
Iteration(loop, price, triggered, checked, balance, quoted, submitted, end) ==
  [loop |-> loop, price |-> price, triggered |-> triggered, checked |-> checked,
   balance |-> balance, quoted |-> quoted, submitted |-> submitted, end |-> end,
   confirmed |-> submitted /\ end # "throw"]

\* signAndExecuteTransactions of the Raydium bots: the transaction is
\* confirmed within its MAX_RETRIES attempts, or every attempt fails; the
\* catch inside the retry loop takes each failure, so the call never throws
MAX_RETRIES == 5
signAndExecuteTransactions(swap) ==
  [threw |-> FALSE, confirmed |-> swap = "sent",
   attempts |-> IF swap = "sent" THEN 1 ELSE MAX_RETRIES]

\* the iteration that submitted the swap, with what signAndExecuteTransactions did
Executed(it, swap) ==
  [it EXCEPT !.confirmed = signAndExecuteTransactions(swap).confirmed,
             !.end = IF signAndExecuteTransactions(swap).threw THEN "returnFailure"
                     ELSE "return"]

Running(b, phase, buyPrice, it) ==
  [phase |-> phase, variant |-> b.variant, buyPrice |-> buyPrice, it |-> it]

\* price >= TARGET_SELL_PRICE_USD || price <= buyPrice * (1 - STOP_LOSS_PERCENTAGE / 100);
\* the configured copy takes the stop-loss from the target buy price
sellTrigger(variant, buyPrice, price) ==
  LET base == IF variant = "limitorder-raydium-configured.js"
              THEN TARGET_BUY_PRICE_USD ELSE buyPrice
  IN  \/ price >= TARGET_SELL_PRICE_USD
      \/ price * 100 <= base * (100 - STOP_LOSS_PERCENTAGE)

\* one iteration of monitorAndBuyToken (limitorder-raydium.js and its copy)
monitorAndBuyToken(b, price, balance, swap) ==
  IF price = NoPrice
  THEN Running(b, "buying", 0, Iteration("buy", price, FALSE, FALSE, 0, FALSE, FALSE, "sleep"))
  ELSE IF price <= TARGET_BUY_PRICE_USD
  THEN LET hasBalance == balance # BalanceError /\ checkWalletBalance(balance)
       IN  IF ~hasBalance
           THEN Running(b, "stopped", 0,
                        Iteration("buy", price, TRUE, TRUE, balance, FALSE, FALSE, "return"))
           ELSE IF swap \in {"noQuote", "noTransaction"}
           THEN Running(b, "buying", 0,
                        Iteration("buy", price, TRUE, TRUE, balance, TRUE, FALSE, "continue"))
           ELSE IF signAndExecuteTransactions(swap).threw
           THEN Running(b, "stopped", 0,
                        Executed(Iteration("buy", price, TRUE, TRUE, balance, TRUE, TRUE,
                                           "return"), swap))
           ELSE Running(b, "selling", price,
                        Executed(Iteration("buy", price, TRUE, TRUE, balance, TRUE, TRUE,
                                           "return"), swap))
  ELSE Running(b, "buying", 0, Iteration("buy", price, FALSE, FALSE, 0, FALSE, FALSE, "sleep"))

\* one iteration of monitorBuy (part_003, part_004)
monitorBuy(b, price, balance, swap) ==
  IF price = NoPrice
  THEN Running(b, "buying", 0, Iteration("buy", price, FALSE, FALSE, 0, FALSE, FALSE, "sleep"))
  ELSE IF price <= TARGET_BUY_PRICE_USD
  THEN IF balance = BalanceError
       THEN Running(b, "stopped", 0,
                    Iteration("buy", price, TRUE, TRUE, balance, FALSE, FALSE, "throw"))
       ELSE IF ~checkWalletBalance(balance)
       THEN IF b.variant = "part_003"
            THEN Running(b, "stopped", 0,
                         Iteration("buy", price, TRUE, TRUE, balance, FALSE, FALSE, "return"))
            ELSE Running(b, "buying", 0,
                         Iteration("buy", price, TRUE, TRUE, balance, FALSE, FALSE, "sleep"))
       ELSE IF swap \in {"noQuote", "noTransaction"}
       THEN Running(b, "stopped", 0,
                    Iteration("buy", price, TRUE, TRUE, balance, TRUE, FALSE, "throw"))
       ELSE IF swap = "sendFailed"
       THEN Running(b, "stopped", 0,
                    Iteration("buy", price, TRUE, TRUE, balance, TRUE, TRUE, "throw"))
       ELSE Running(b, "selling", price,
                    Iteration("buy", price, TRUE, TRUE, balance, TRUE, TRUE, "return"))
  ELSE Running(b, "buying", 0, Iteration("buy", price, FALSE, FALSE, 0, FALSE, FALSE, "sleep"))

\* one iteration of monitorAndSellToken (limitorder-raydium.js and its copy)
monitorAndSellToken(b, price, tokenBalance, swap) ==
  IF price = NoPrice
  THEN Running(b, "selling", b.buyPrice,
               Iteration("sell", price, FALSE, FALSE, 0, FALSE, FALSE, "sleep"))
  ELSE IF sellTrigger(b.variant, b.buyPrice, price)
  THEN IF tokenBalance = BalanceError
       THEN Running(b, "selling", b.buyPrice,
                    Iteration("sell", price, TRUE, TRUE, tokenBalance, FALSE, FALSE, "sleep"))
       ELSE IF tokenBalance <= 0
       THEN Running(b, "stopped", b.buyPrice,
                    Iteration("sell", price, TRUE, TRUE, tokenBalance, FALSE, FALSE, "return"))
       ELSE IF swap \in {"noQuote", "noTransaction"}
       THEN Running(b, "selling", b.buyPrice,
                    Iteration("sell", price, TRUE, TRUE, tokenBalance, TRUE, FALSE, "continue"))
       ELSE Running(b, "stopped", b.buyPrice,
                    Executed(Iteration("sell", price, TRUE, TRUE, tokenBalance, TRUE, TRUE,
                                       "return"), swap))
  ELSE Running(b, "selling", b.buyPrice,
               Iteration("sell", price, FALSE, FALSE, 0, FALSE, FALSE, "sleep"))

\* getBalanceLamports: the amount, or 0 once its five attempts have failed
getBalanceLamports(tokenBalance) == IF tokenBalance = BalanceError THEN 0 ELSE tokenBalance

\* the mutant: with no tokens to sell the bot goes back to watching for a buy
monitorSellRestarts(b, price, tokenBalance, swap) ==
  IF price = NoPrice
  THEN Running(b, "selling", b.buyPrice,
               Iteration("sell", price, FALSE, FALSE, 0, FALSE, FALSE, "sleep"))
  ELSE IF sellTrigger(b.variant, b.buyPrice, price)
  THEN LET lamports == getBalanceLamports(tokenBalance)
       IN  IF lamports = 0
           THEN Running(b, "buying", 0,
                        Iteration("sell", price, TRUE, TRUE, lamports, FALSE, FALSE, "return"))
           ELSE IF swap \in {"noQuote", "noTransaction", "sendFailed"}
           THEN Running(b, "stopped", b.buyPrice,
                        Iteration("sell", price, TRUE, TRUE, lamports, TRUE,
                                  swap = "sendFailed", "throw"))
           ELSE Running(b, "stopped", b.buyPrice,
                        Iteration("sell", price, TRUE, TRUE, lamports, TRUE, TRUE, "return"))
  ELSE Running(b, "selling", b.buyPrice,
               Iteration("sell", price, FALSE, FALSE, 0, FALSE, FALSE, "sleep"))

\* one iteration of monitorSell (part_003, part_004)
monitorSell(b, price, tokenBalance, swap) ==
  IF price = NoPrice
  THEN Running(b, "selling", b.buyPrice,
               Iteration("sell", price, FALSE, FALSE, 0, FALSE, FALSE, "sleep"))
  ELSE IF sellTrigger(b.variant, b.buyPrice, price)
  THEN LET lamports == getBalanceLamports(tokenBalance)
       IN  IF lamports = 0
           THEN Running(b, "stopped", b.buyPrice,
                        Iteration("sell", price, TRUE, TRUE, lamports, FALSE, FALSE, "return"))
           ELSE IF swap \in {"noQuote", "noTransaction"}
           THEN Running(b, "stopped", b.buyPrice,
                        Iteration("sell", price, TRUE, TRUE, lamports, TRUE, FALSE, "throw"))
           ELSE IF swap = "sendFailed"
           THEN Running(b, "stopped", b.buyPrice,
                        Iteration("sell", price, TRUE, TRUE, lamports, TRUE, TRUE, "throw"))
           ELSE Running(b, "stopped", b.buyPrice,
                        Iteration("sell", price, TRUE, TRUE, lamports, TRUE, TRUE, "return"))
  ELSE Running(b, "selling", b.buyPrice,
               Iteration("sell", price, FALSE, FALSE, 0, FALSE, FALSE, "sleep"))

\* main() of the Raydium bots; the bootstrap of the Jupiter bots with the
\* balance check monitorBuy makes before its loop: a low balance only warns
StartBot ==
  /\ bot.phase = "idle"
  /\ \E variant \in BotVariants, balance \in Balances :
       bot' = IF variant \in RaydiumVariants
              THEN [phase |-> "buying", variant |-> variant, buyPrice |-> 0,
                    it |-> Iteration("start", NoPrice, FALSE, FALSE, 0, FALSE, FALSE, "continue")]
              ELSE [phase |-> IF balance = BalanceError THEN "stopped" ELSE "buying",
                    variant |-> variant, buyPrice |-> 0,
                    it |-> Iteration("start", NoPrice, FALSE, TRUE, balance, FALSE, FALSE,
                                     IF balance = BalanceError THEN "throw" ELSE "continue")]
  /\ UNCHANGED <<hmm, lastCall, pc, tokenData, hmmAnalysis, trainedFor, ta, memo, bw, app, at, pdc>>

MonitorAndBuyToken ==
  /\ bot.phase = "buying" /\ bot.variant \in RaydiumVariants
  /\ \E price \in PolledPrices, balance \in Balances, swap \in SwapOutcomes :
       bot' = monitorAndBuyToken(bot, price, balance, swap)
  /\ UNCHANGED <<hmm, lastCall, pc, tokenData, hmmAnalysis, trainedFor, ta, memo, bw, app, at, pdc>>

MonitorBuy ==
  /\ bot.phase = "buying" /\ bot.variant \notin RaydiumVariants
  /\ \E price \in PolledPrices, balance \in Balances, swap \in SwapOutcomes :
       bot' = monitorBuy(bot, price, balance, swap)
  /\ UNCHANGED <<hmm, lastCall, pc, tokenData, hmmAnalysis, trainedFor, ta, memo, bw, app, at, pdc>>

MonitorAndSellToken ==
  /\ bot.phase = "selling" /\ bot.variant \in RaydiumVariants
  /\ \E price \in PolledPrices, tokenBalance \in TokenBalances, swap \in SwapOutcomes :
       bot' = monitorAndSellToken(bot, price, tokenBalance, swap)
  /\ UNCHANGED <<hmm, lastCall, pc, tokenData, hmmAnalysis, trainedFor, ta, memo, bw, app, at, pdc>>

MonitorSell ==
  /\ bot.phase = "selling" /\ bot.variant \notin RaydiumVariants
  /\ \E price \in PolledPrices, tokenBalance \in TokenBalances, swap \in SwapOutcomes :
       bot' = monitorSell(bot, price, tokenBalance, swap)
  /\ UNCHANGED <<hmm, lastCall, pc, tokenData, hmmAnalysis, trainedFor, ta, memo, bw, app, at, pdc>>

InitBot == InitTA

NextBot == StartBot \/ MonitorAndBuyToken \/ MonitorBuy \/ MonitorAndSellToken \/ MonitorSell

SpecBot == InitBot /\ [][NextBot]_vars

-----------------------------------------------------------------------------
(* baumWelchTraining, one loop iteration at a time.  The call runs on the  *)
(* parameters the analyzer holds: those initializeParameters built for the *)
(* sequence (trainModel), or those it built for another sequence (a call   *)
(* without initializeParameters before it).                                *)

\* the mutant: the count returned on convergence is the loop counter
baumWelchIterationCounter(m, observations, iteration, prevLikelihood) ==
  LET fb == forwardBackward(m, observations)
      m2 == updateParameters(m, observations, fb.alpha, fb.beta)
  IN  IF LogClose(fb.likelihood, prevLikelihood)
      THEN [returned |-> TRUE, m |-> m2, likelihood |-> fb.likelihood,
            value |-> [iterations |-> iteration, likelihood |-> fb.likelihood,
                       converged |-> TRUE]]
      ELSE IF iteration + 1 < maxIterations
      THEN [returned |-> FALSE, m |-> m2, likelihood |-> fb.likelihood]
      ELSE [returned |-> TRUE, m |-> m2, likelihood |-> fb.likelihood,
            value |-> [iterations |-> iteration + 1, likelihood |-> fb.likelihood,
                       converged |-> FALSE]]

\* the body of the for loop for one value of iteration < maxIterations, with
\* the return that follows the loop when iteration + 1 reaches maxIterations
baumWelchIteration(m, observations, iteration, prevLikelihood) ==
  LET fb == forwardBackward(m, observations)
      m2 == updateParameters(m, observations, fb.alpha, fb.beta)
  IN  IF LogClose(fb.likelihood, prevLikelihood)
      THEN [returned |-> TRUE, m |-> m2, likelihood |-> fb.likelihood,
            value |-> [iterations |-> iteration + 1, likelihood |-> fb.likelihood,
                       converged |-> TRUE]]
      ELSE IF iteration + 1 < maxIterations
      THEN [returned |-> FALSE, m |-> m2, likelihood |-> fb.likelihood]
      ELSE [returned |-> TRUE, m |-> m2, likelihood |-> fb.likelihood,
            value |-> [iterations |-> iteration + 1, likelihood |-> fb.likelihood,
                       converged |-> FALSE]]

\* the parameters a call on observations can find
HeldParameters(observations) ==
  { initializeParameters(observations), initializeParameters(<<0, 0>>),
    initializeParameters(<<7, 7>>) }

CallBaumWelchTraining ==
  /\ bw.phase = "idle"
  /\ \E observations \in ObservationSeqs :
       \E m \in HeldParameters(observations) :
         bw' = [phase |-> "running", observations |-> observations, m0 |-> m, m |-> m,
                iteration |-> 0, prevLikelihood |-> Zero, likelihoods |-> <<>>]
  /\ UNCHANGED <<hmm, lastCall, pc, tokenData, hmmAnalysis, trainedFor, ta, memo, at,
                 pdc, bot, app>>

BaumWelchIteration ==
  /\ bw.phase = "running"
  /\ \E r \in {baumWelchIteration(bw.m, bw.observations, bw.iteration, bw.prevLikelihood)} :
       bw' = IF r.returned
             THEN [phase |-> "returned", observations |-> bw.observations,
                   m0 |-> bw.m0, m |-> r.m,
                   likelihoods |-> Append(bw.likelihoods, r.likelihood),
                   value |-> r.value]
             ELSE [bw EXCEPT !.m = r.m, !.iteration = @ + 1,
                             !.prevLikelihood = r.likelihood,
                             !.likelihoods = Append(@, r.likelihood)]
  /\ UNCHANGED <<hmm, lastCall, pc, tokenData, hmmAnalysis, trainedFor, ta, memo, at,
                 pdc, bot, app>>

InitBW == InitTA

NextBW == CallBaumWelchTraining \/ BaumWelchIteration

SpecBW == InitBW /\ [][NextBW]_vars

\* the loop body is straight-line code, so a call that is running takes its
\* next iteration: weak fairness of BaumWelchIteration, which is enabled
\* exactly while the call is running
SpecBWFair ==
  SpecBW /\ ([]<>(bw.phase # "running") \/ []<><<BaumWelchIteration>>_vars)

-----------------------------------------------------------------------------
(* heuristicClassification applied to series of two and three candles *)

HeuristicPrices == {94, 95, 100, 101, 105, 106}
HeuristicCloses == SeqsOf(HeuristicPrices, 2) \cup SeqsOf(HeuristicPrices, 3)

ApplyHeuristicClassification ==
  /\ app.op = "none"
  /\ \E closes \in HeuristicCloses :
       app' = [op |-> "heuristicClassification", closes |-> closes,
               result |-> heuristicClassification([len |-> Len(closes), closes |-> closes,
                                                   pts |-> <<>>])]
  /\ UNCHANGED <<hmm, lastCall, pc, tokenData, hmmAnalysis, trainedFor, ta, memo, at,
                 pdc, bot, bw>>

InitHeuristic == InitTA

NextHeuristic == ApplyHeuristicClassification

SpecHeuristic == InitHeuristic /\ [][NextHeuristic]_vars

-----------------------------------------------------------------------------
(* viterbiDecode and the regime predictMarketRegime reports from it, on    *)
(* the parameters a baumWelchTraining call has left and on parameters      *)
(* whose states differ (the fields of the analyzer are assignable)         *)

Quarters(row) == [i \in DOMAIN row |-> Rat(row[i], 4)]

DistinctStateParameters ==
  { [A  |-> << Quarters(<<2, 1, 1, 0>>), Quarters(<<1, 2, 0, 1>>),
               Quarters(<<1, 0, 2, 1>>), Quarters(<<0, 1, 1, 2>>) >>,
     B  |-> << Quarters(<<3, 1>>), Quarters(<<1, 3>>), Quarters(<<2, 2>>), Quarters(<<2, 2>>) >>,
     pi |-> Quarters(<<1, 1, 1, 1>>),
     K  |-> 2],
    [A  |-> << Quarters(<<0, 4, 0, 0>>), Quarters(<<0, 0, 4, 0>>),
               Quarters(<<0, 0, 2, 2>>), Quarters(<<4, 0, 0, 0>>) >>,
     B  |-> << Quarters(<<4, 0>>), Quarters(<<0, 4>>), Quarters(<<2, 2>>), Quarters(<<1, 3>>) >>,
     pi |-> Quarters(<<0, 2, 0, 2>>),
     K  |-> 2] }

BinaryObservations == SeqsOf({0, 1}, 2) \cup SeqsOf({0, 1}, 3)

Decoded(m, observations) ==
  [op |-> "viterbiDecode", m |-> m, observations |-> observations,
   stateSequence |-> viterbiDecode(m, observations),
   currentRegime |-> regimePrediction(m, observations).currentRegime]

\* predictMarketRegime's decoding, on the parameters training left
ViterbiDecode ==
  /\ bw.phase = "returned"
  /\ app.op = "none"
  /\ \E observations \in ObservationSeqs : app' = Decoded(bw.m, observations)
  /\ UNCHANGED <<hmm, lastCall, pc, tokenData, hmmAnalysis, trainedFor, ta, memo, at,
                 pdc, bot, bw>>

ViterbiDecodeDistinct ==
  /\ bw.phase = "idle"
  /\ app.op = "none"
  /\ \E m \in DistinctStateParameters, observations \in BinaryObservations :
       app' = Decoded(m, observations)
  /\ UNCHANGED <<hmm, lastCall, pc, tokenData, hmmAnalysis, trainedFor, ta, memo, at,
                 pdc, bot, bw>>

InitViterbi == InitTA

NextViterbi ==
  \/ (app.op = "none" /\ CallBaumWelchTraining)
  \/ BaumWelchIteration
  \/ ViterbiDecode
  \/ ViterbiDecodeDistinct

SpecViterbi == InitViterbi /\ [][NextViterbi]_vars

-----------------------------------------------------------------------------
(* Properties *)

\* |x - 1| <= 1e-6
NearOne(x) ==
  /\ IsFinite(x)
  /\ LET diff == Abs(x[1] - x[2]) IN diff = 0 \/ diff <= x[2] \div convergenceThresholdInv

RECURSIVE SumOver(_, _)
SumOver(f, S) == IF S = {} THEN Zero
                 ELSE LET k == CHOOSE x \in S : TRUE IN Add(f[k], SumOver(f, S \ {k}))

InUnitInterval(x) == ~IsNaN(x) /\ ~Lt(x, Zero) /\ ~Gt(x, One)

TrainedPath(value) == "nextStateProbabilities" \in DOMAIN value

\* C1: after a successful trainModel call every row of transitionMatrix and
\* of emissionMatrix sums to 1 (within 1e-6) and initialProbs sums to 1.
C1_RowStochastic ==
  (lastCall.op = "trainModel" /\ ~lastCall.threw) =>
    /\ \A i \in DOMAIN hmm.transitionMatrix : NearOne(SumSeq(hmm.transitionMatrix[i]))
    /\ \A i \in DOMAIN hmm.emissionMatrix : NearOne(SumSeq(hmm.emissionMatrix[i]))
    /\ NearOne(SumSeq(hmm.initialProbs))

\* C2: the regime prediction returned for a token is never computed from
\* parameters that were trained on another token's series.
C2_OwnModel ==
  \A t \in Tokens : hmmAnalysis[t].paramsOf \in {"none", t}

\* C3: a predictMarketRegime call on a trained model leaves clusterCenters,
\* transitionMatrix, emissionMatrix, initialProbs and the trained flag as they
\* were before the call.
C3_PredictFrame ==
  [][ (hmm.isTrained /\ lastCall'.op = "predictMarketRegime") =>
        /\ hmm'.clusterCenters = hmm.clusterCenters
        /\ Params(hmm') = Params(hmm)
        /\ hmm'.isTrained = hmm.isTrained ]_vars

\* C4: a failed trainModel call leaves an untrained model untrained, and a
\* model that stays trained holds nothing of the pass that did not complete:
\* its parameters and centroids are those it held before the call.
C4_FailedTraining ==
  [][ (lastCall'.op = "trainModel" /\ lastCall'.threw) =>
        /\ ~hmm.isTrained => ~hmm'.isTrained
        /\ hmm'.isTrained => /\ Params(hmm') = Params(hmm)
                             /\ hmm'.clusterCenters = hmm.clusterCenters ]_vars

\* C5: predictMarketRegime on a model that was never trained returns, for
\* every input series, a result tagged method HEURISTIC, and never raises.
C5_UntrainedHeuristic ==
  (lastCall.op = "predictMarketRegime" /\ ~hmm.isTrained) =>
    /\ ~lastCall.threw
    /\ lastCall.value.method = "HEURISTIC"

\* C6: trainModel on fewer than 100 candles raises the insufficient-data error
\* and leaves the model as it was; on exactly 100 candles it raises nothing
\* and the model is trained.
C6_TrainingBoundary ==
  [][ lastCall'.op = "trainModel" =>
        /\ lastCall'.len < 100 =>
             /\ lastCall'.threw
             /\ lastCall'.error = "Insufficient data for HMM training"
             /\ hmm' = hmm
        /\ lastCall'.len = 100 => (~lastCall'.threw /\ hmm'.isTrained) ]_vars

\* C6 witness: a model trained on exactly 100 candles has then rejected 99
C6_Witness ==
  /\ hmm.isTrained
  /\ \E i \in DOMAIN hmm.trainingHistory : hmm.trainingHistory[i].dataPoints = 100
  /\ lastCall.op = "trainModel" /\ lastCall.len = 99 /\ lastCall.threw

\* C7: every prediction predictMarketRegime returns, trained or heuristic,
\* has stateProbabilities summing to 1 and a confidence in [0, 1].
C7_PredictionProbabilities ==
  (lastCall.op = "predictMarketRegime" /\ ~lastCall.threw) =>
    /\ NearOne(SumOver(lastCall.value.stateProbabilities,
                       DOMAIN lastCall.value.stateProbabilities))
    /\ InUnitInterval(lastCall.value.confidence)

\* C8: on the trained path nextStateProbabilities is the current state's row
\* of the transition matrix, by regime label, and sums to 1.
C8_NextStateRow ==
  (lastCall.op = "predictMarketRegime" /\ ~lastCall.threw /\ TrainedPath(lastCall.value)) =>
    /\ \A r \in StateNames :
         lastCall.value.nextStateProbabilities[r] =
           MGet(hmm.transitionMatrix, indexOf(lastCall.value.currentRegime), indexOf(r))
    /\ NearOne(SumOver(lastCall.value.nextStateProbabilities, StateNames))

\* C9: the emission matrix of a trained model has 4 rows and 8 columns, so
\* that every cluster id 0..7 discretization can produce is one of its columns.
C9_FixedAlphabet ==
  hmm.isTrained =>
    /\ Len(hmm.emissionMatrix) = numStates
    /\ \A i \in DOMAIN hmm.emissionMatrix : Len(hmm.emissionMatrix[i]) = numSymbolsK

\* C10: analyzeTechnicals on 50 candles or more returns an overall score in
\* [0, 100] and a confidence in [0, 1]; on fewer it raises the
\* insufficient-data error.
C10_ScoreRanges ==
  ta.phase = "returned" =>
    IF ta.len < 50
    THEN ta.threw /\ ta.error = "Insufficient data for technical analysis (minimum 50 data points required)"
    ELSE /\ ~ta.threw
         /\ ~IsNaN(ta.value.technicalScore.overall)
         /\ ~Lt(ta.value.technicalScore.overall, Zero)
         /\ ~Gt(ta.value.technicalScore.overall, Num(100))
         /\ InUnitInterval(ta.value.confidence)

\* C12: in every analysis analyzeTechnicals returns, the volume ratio, the
\* Bollinger position, the risk/reward ratio, the overall score and the
\* confidence are finite numbers: a zero denominator gives a default, never
\* NaN or Infinity.
C12_GuardedDivisions ==
  (ta.phase = "returned" /\ ~ta.threw) =>
    /\ IsFinite(ta.value.signals.volume.ratio)
    /\ IsFinite(ta.value.signals.bollingerBands.position)
    /\ IsFinite(ta.value.priceTargets.riskReward)
    /\ IsFinite(ta.value.technicalScore.overall)
    /\ IsFinite(ta.value.confidence)

\* x >= y for numbers
AtLeast(x, y) == ~IsNaN(x) /\ ~IsNaN(y) /\ ~Lt(x, y)

\* the label table of the specification
SignalLabel(score) ==
  CASE AtLeast(score, Num(75)) -> "STRONG_BUY"
    [] ~AtLeast(score, Num(75)) /\ AtLeast(score, Num(60)) -> "BUY"
    [] ~AtLeast(score, Num(60)) /\ AtLeast(score, Num(55)) -> "WEAK_BUY"
    [] ~AtLeast(score, Num(55)) /\ AtLeast(score, Num(45)) -> "NEUTRAL"
    [] ~AtLeast(score, Num(45)) /\ AtLeast(score, Num(40)) -> "WEAK_SELL"
    [] ~AtLeast(score, Num(40)) /\ AtLeast(score, Num(25)) -> "SELL"
    [] OTHER -> "STRONG_SELL"

\* the timeframes of the collected price data that hold 20 candles or more
Counted(priceData) ==
  { tf \in TimeframeNames : priceData[tf].success /\ priceData[tf].data.len >= 20 }
TrendCount(priceData, trend) ==
  Cardinality({ tf \in Counted(priceData) : identifyTrend(priceData[tf].data) = trend })

\* C11: in every analysis analyzeToken returns, the label of the indicator
\* engine is the table's label for the engine's overall score, and the label
\* of the combiner is the table's label for the combined overall score:
\* >= 75 STRONG_BUY, >= 60 BUY, >= 55 WEAK_BUY, >= 45 NEUTRAL, >= 40 WEAK_SELL,
\* >= 25 SELL, otherwise STRONG_SELL.
C11_SignalTable ==
  at.phase = "returned" =>
    /\ at.value.overallSignal = SignalLabel(at.value.overallScore)
    /\ at.value.analyses.traditional.overallSignal =
         SignalLabel(at.value.analyses.traditional.technicalScore.overall)

\* C11 witness: an engine score of exactly 75 labelled STRONG_BUY
C11_Witness ==
  /\ at.phase = "returned"
  /\ at.value.analyses.traditional.technicalScore.overall = Num(75)
  /\ at.value.analyses.traditional.overallSignal = "STRONG_BUY"

\* C13: the consensus analyzeMultiTimeframe returns is BULLISH exactly when
\* the bullish timeframes are at least the bearish ones plus 2, BEARISH
\* exactly when the bearish ones are at least the bullish ones plus 2, and
\* NEUTRAL otherwise, the timeframes counted being those with 20 candles or
\* more.
C13_Consensus ==
  [][ (at.phase = "collected" /\ at'.phase = "analyzed") =>
        LET bullish == TrendCount(at.priceData, "BULLISH")
            bearish == TrendCount(at.priceData, "BEARISH")
            mtf     == at'.multiTimeframe
        IN  /\ DOMAIN mtf.individual = Counted(at.priceData)
            /\ mtf.consensus = "BULLISH" <=> bullish >= bearish + 2
            /\ mtf.consensus = "BEARISH" <=> bearish >= bullish + 2
            /\ mtf.consensus \in {"BULLISH", "BEARISH", "NEUTRAL"} ]_vars

\* C13 witness: a BEARISH consensus over four counted timeframes
C13_Witness ==
  /\ at.phase = "analyzed"
  /\ at.multiTimeframe.consensus = "BEARISH"
  /\ Cardinality(DOMAIN at.multiTimeframe.individual) = 4

\* C14: when the counted timeframes are not empty and each of them reports
\* BULLISH, the consensus is BULLISH and every reported trend agrees with it.
C14_AllBullish ==
  [][ ( /\ at.phase = "collected" /\ at'.phase = "analyzed"
        /\ Counted(at.priceData) # {}
        /\ TrendCount(at.priceData, "BULLISH") = Cardinality(Counted(at.priceData)) ) =>
        /\ at'.multiTimeframe.consensus = "BULLISH"
        /\ \A tf \in DOMAIN at'.multiTimeframe.individual :
             at'.multiTimeframe.individual[tf].trend = at'.multiTimeframe.consensus ]_vars

\* a number in [0, 100]
InScoreRange(x) == AtLeast(x, Zero) /\ AtLeast(Num(100), x)

\* C15: in every analysis analyzeToken returns, the five component scores lie
\* in [0, 100], overallScore is traditional x 0.35 + ml x 0.25 +
\* multiTimeframe x 0.15 + patterns x 0.10 + hmm x 0.15 and lies in [0, 100],
\* and confidence lies in [0, 1].
C15_WeightedScore ==
  at.phase = "returned" =>
    LET scores == at.value.scores
    IN  /\ \A k \in DOMAIN scores : InScoreRange(scores[k])
        /\ DOMAIN scores = {"traditional", "ml", "multiTimeframe", "patterns", "hmm"}
        /\ at.value.overallScore =
             SumSeq(<< Mul(Rat(7, 20), scores.traditional), Mul(Rat(1, 4), scores.ml),
                       Mul(Rat(3, 20), scores.multiTimeframe),
                       Mul(Rat(1, 10), scores.patterns), Mul(Rat(3, 20), scores.hmm) >>)
        /\ InScoreRange(at.value.overallScore)
        /\ InUnitInterval(at.value.confidence)

\* C15 witness: a returned analysis whose timeframes cancel out (strength 0)
\* and whose regime moves the hmm score off 50
C15_Witness ==
  /\ at.phase = "returned"
  /\ at.value.scores.multiTimeframe = Zero
  /\ at.value.scores.hmm # Num(50)
  /\ at.value.scores.ml # Zero

\* C17: an analyzeToken call whose primary timeframe failed or holds fewer
\* than 50 candles ends with the insufficient-data error, whatever the other
\* timeframes hold, and every returned analysis had 50 primary candles or more.
C17_NoVerdictWithoutData ==
  [][ /\ ( /\ at.phase = "collected"
           /\ \/ ~at.priceData[primaryTF].success
              \/ at.priceData[primaryTF].data.len < 50 ) =>
             /\ at'.phase = "failed"
             /\ at'.error = "Insufficient data for 1h timeframe analysis"
      /\ at'.phase = "returned" => at'.primaryData.len >= 50 ]_vars

\* C17 witness: a call failed on 27 primary candles while 15m was collected
C17_Witness ==
  /\ at.phase = "failed"
  /\ at.priceData[primaryTF].success
  /\ at.priceData[primaryTF].data.len = 27
  /\ at.priceData["15m"].success

\* C16: in every analysis analyzeTechnicals returns, a BULLISH alignment has
\* the price above both averages on at least 4 periods and a BEARISH one has
\* it below both on at least 4 periods, a period without an SMA/EMA value
\* being neither.
C16_MAAlignment ==
  (ta.phase = "returned" /\ ~ta.threw) =>
    LET ma == ta.value.signals.movingAverages
        aboveBoth == { i \in DOMAIN ma.data :
                         ma.data[i].hasValue /\ ma.data[i].aboveSMA /\ ma.data[i].aboveEMA }
        belowBoth == { i \in DOMAIN ma.data :
                         ma.data[i].hasValue /\ ~ma.data[i].aboveSMA /\ ~ma.data[i].aboveEMA }
    IN  /\ ma.alignment = "BULLISH" => Cardinality(aboveBoth) >= 4
        /\ ma.alignment = "BEARISH" => Cardinality(belowBoth) >= 4

\* a step of the collector that is a collectHistoricalData call
CallStep == pdc' # pdc /\ pdc'.now = pdc.now

\* the entries the cache holds for a (token, timeframe), under any key
EntriesFor(p, call) ==
  { p.dataCache[k] : k \in { x \in DOMAIN p.dataCache :
                               x[1] = call.tokenAddress /\ x[2] = call.timeframe } }

\* the parts of C18 about expiry and empty series: a request made 5 minutes or more after the entry of its
\* key was stored contacts the providers and a series they return replaces
\* the entry; no entry ever holds an empty series
C18_ExpiryAndNoEmpty ==
  [][ CallStep =>
        LET call == pdc'.last.call
            key  == cacheKey(call.tokenAddress, call.timeframe, call.limit)
        IN  /\ ( /\ key \in DOMAIN pdc.dataCache
                 /\ pdc.now - pdc.dataCache[key].timestamp >= 5 * 60 * 1000 )
                 => /\ pdc'.last.contacted # {}
                    /\ pdc'.last.from = "provider"
                         => pdc'.dataCache[key] = [data |-> pdc'.last.data,
                                                   timestamp |-> pdc.now]
            /\ \A k \in DOMAIN pdc'.dataCache : pdc'.dataCache[k].data.len > 0 ]_vars

\* C18: the OHLCV cache is a read-through cache keyed by (token, timeframe)
\* with a time-to-live of 5 minutes: a fresh entry for the (token,
\* timeframe) answers the request with no provider contacted, an entry of
\* 5 minutes or more is fetched again and replaced, and no empty series is
\* stored
C18_ReadThroughCache ==
  [][ CallStep =>
        LET call == pdc'.last.call
            key  == cacheKey(call.tokenAddress, call.timeframe, call.limit)
        IN  /\ (\E e \in EntriesFor(pdc, call) : pdc.now - e.timestamp < 5 * 60 * 1000)
                 => /\ pdc'.last.from = "cache"
                    /\ pdc'.last.contacted = {}
            /\ ( /\ key \in DOMAIN pdc.dataCache
                 /\ pdc.now - pdc.dataCache[key].timestamp >= 5 * 60 * 1000 )
                 => /\ pdc'.last.contacted # {}
                    /\ pdc'.last.from = "provider"
                         => pdc'.dataCache[key] = [data |-> pdc'.last.data,
                                                   timestamp |-> pdc.now]
            /\ \A k \in DOMAIN pdc'.dataCache : pdc'.dataCache[k].data.len > 0 ]_vars

\* C19: in every bot variant a buy swap is quoted and submitted only if the
\* wallet balance check made after the buy price trigger, in the same loop
\* iteration, reported a balance of at least the configured trade amount
C19_BalanceBeforeBuy ==
  (bot.phase # "idle" /\ bot.it.loop = "buy" /\ (bot.it.quoted \/ bot.it.submitted))
    => /\ bot.it.triggered
       /\ bot.it.price <= 100
       /\ bot.it.checked
       /\ bot.it.balance >= 1000000000

\* a buy was quoted and submitted, in an iteration whose balance check passed
C19_Witness ==
  /\ bot.phase = "selling" /\ bot.variant = "part_004"
  /\ bot.it.loop = "buy" /\ bot.it.quoted /\ bot.it.submitted
  /\ bot.it.balance = 1000000000

\* C20: after a buy, once a polled price is at or below
\* buyPrice * (1 - stopLossPercentage / 100), or at or above the sell target,
\* the bot submits a sell swap for the held tokens: the sell-monitoring loop
\* never ends after such a price without having submitted it
C20_StopLossSells ==
  ( /\ bot.phase = "stopped"
    /\ bot.it.loop = "sell"
    /\ bot.it.price # -1
    /\ \/ bot.it.price * 100 <= bot.buyPrice * (100 - 10)
       \/ bot.it.price >= 150 )
    => bot.it.submitted

\* |ln p - ln q| < 1e-6 for the likelihoods p and q (probabilities; the log
\* of 0 is -Infinity and of NaN is NaN, and no difference with them is small)
LogLikelihoodsWithin(p, q) ==
  /\ IsFinite(p) /\ IsFinite(q) /\ p[1] > 0 /\ q[1] > 0
  /\ \/ p = q
     \/ LET hi == IF Gt(p, q) THEN p ELSE q
            lo == IF Gt(p, q) THEN q ELSE p
        IN  Lt(Sub(Div(hi, lo), One), Rat(1, 1000000))

\* the likelihood before iteration k (1-based): -Infinity before the first
LikelihoodBefore(k) == IF k = 1 THEN Zero ELSE bw.likelihoods[k - 1]

\* a baumWelchTraining call that has started returns
BaumWelchReturns == bw.phase = "running" ~> bw.phase = "returned"

\* what the call has done so far, and what it returned, agree with the loop
\* of at most 50 iterations that stops at the first small difference
BaumWelchBounded ==
  /\ bw.phase = "running" => Len(bw.likelihoods) < 50
  /\ bw.phase = "returned" =>
       LET n == Len(bw.likelihoods)
       IN  /\ n >= 1 /\ n <= 50
           /\ bw.value.iterations = n
           /\ \A k \in 1..(n - 1) :
                ~LogLikelihoodsWithin(bw.likelihoods[k], LikelihoodBefore(k))
           /\ bw.value.converged
                <=> LogLikelihoodsWithin(bw.likelihoods[n], LikelihoodBefore(n))
           /\ ~bw.value.converged => n = 50

\* C21: Baum-Welch training always terminates: it runs at least 1 and at most
\* 50 iterations, stops at the first iteration whose log-likelihood is
\* within 1e-6 of the one before, records converged = true exactly when it
\* stopped for that reason, and records the number of iterations run
C21_Terminates == []BaumWelchBounded /\ BaumWelchReturns

\* a training on freshly initialised parameters that converged at its third
\* iteration
C21_Witness ==
  /\ bw.phase = "returned"
  /\ bw.value.converged /\ bw.value.iterations = 3

\* a training that ran into the cap of 50 iterations
BaumWelchCapReached ==
  /\ bw.phase = "returned"
  /\ ~bw.value.converged /\ bw.value.iterations = 50

\* the returns of a series of closes, their mean and their variance
ReturnsOf(closes) ==
  [i \in 1..(Len(closes) - 1) |-> Rat(closes[i + 1] - closes[i], closes[i])]
MeanOf(xs) == Div(SumSeq(xs), Num(Len(xs)))
VarianceOf(xs) ==
  Div(SumSeq([i \in 1..Len(xs) |-> Mul(Sub(xs[i], MeanOf(xs)), Sub(xs[i], MeanOf(xs)))]),
      Num(Len(xs)))

\* C22: the heuristic classifier applies its rules in a fixed order with
\* strict inequalities: BULL if the mean return is above 1% and the price
\* change above 5%, else BEAR if they are below -1% and -5%, else
\* HIGH_VOLATILITY if the standard deviation of the returns is above 5%, else
\* SIDEWAYS; one regime is returned for every series of two candles or more,
\* with the confidence of the rule that fired (0.7, 0.7, 0.8, 0.6)
C22_HeuristicRules ==
  app.op = "heuristicClassification" =>
    LET closes == app.closes
        mean   == MeanOf(ReturnsOf(closes))
        var    == VarianceOf(ReturnsOf(closes))
        change == Rat(closes[Len(closes)] - closes[1], closes[1])
        bull   == Gt(mean, Rat(1, 100)) /\ Gt(change, Rat(5, 100))
        bear   == Lt(mean, Rat(-1, 100)) /\ Lt(change, Rat(-5, 100))
        vol    == Gt(var, Rat(25, 10000))
        v      == app.result.value
    IN  /\ ~app.result.threw
        /\ v.currentRegime \in {"BULL", "BEAR", "HIGH_VOLATILITY", "SIDEWAYS"}
        /\ v.currentRegime = "BULL" <=> bull
        /\ v.currentRegime = "BEAR" <=> ~bull /\ bear
        /\ v.currentRegime = "HIGH_VOLATILITY" <=> ~bull /\ ~bear /\ vol
        /\ v.currentRegime = "SIDEWAYS" <=> ~bull /\ ~bear /\ ~vol
        /\ v.confidence = CASE v.currentRegime \in {"BULL", "BEAR"} -> Rat(7, 10)
                            [] v.currentRegime = "HIGH_VOLATILITY" -> Rat(8, 10)
                            [] OTHER -> Rat(6, 10)

\* a price change of exactly 5% with a mean return above 1%: not BULL
C22_Witness ==
  /\ app.op = "heuristicClassification"
  /\ app.closes = <<100, 105>>
  /\ app.result.value.currentRegime = "SIDEWAYS"

\* the state paths of length T
StatePaths(T) == [1..T -> 0..3]

RECURSIVE JointUpTo(_, _, _, _)
\* P(path[1..t], observations[1..t]) under the parameters m
JointUpTo(m, path, observations, t) ==
  IF t = 1
  THEN Mul(At(m.pi, path[1]), MGet(m.B, path[1], observations[1]))
  ELSE Mul(JointUpTo(m, path, observations, t - 1),
           Mul(MGet(m.A, path[t - 1], path[t]), MGet(m.B, path[t], observations[t])))

Joint(m, path, observations) == JointUpTo(m, path, observations, Len(observations))

\* C23: viterbiDecode returns one state of 0..3 per observation, a path
\* whose joint probability with the observations under the initial,
\* transition and emission parameters no other path of that length exceeds;
\* the last state of the path is the regime predictMarketRegime reports
C23_ViterbiOptimal ==
  app.op = "viterbiDecode" =>
    LET T == Len(app.observations)
        best == Joint(app.m, app.stateSequence, app.observations)
    IN  /\ Len(app.stateSequence) = T
        /\ \A t \in 1..T : app.stateSequence[t] \in 0..3
        /\ \A path \in StatePaths(T) :
             ~Gt(Joint(app.m, path, app.observations), best)
        /\ app.currentRegime = At(states, app.stateSequence[T])

\* a decoding under parameters whose states differ, where the best path does
\* not end in state 0
C23_Witness ==
  /\ app.op = "viterbiDecode"
  /\ app.m \in DistinctStateParameters
  /\ app.stateSequence[Len(app.stateSequence)] # 0
  /\ Gt(Joint(app.m, app.stateSequence, app.observations), Zero)

\* a decoding under parameters a training left
ViterbiOnTrained ==
  /\ app.op = "viterbiDecode"
  /\ bw.phase = "returned" /\ bw.value.converged

\* the share of the observations that equal symbol k
SymbolFrequency(observations, k) ==
  Rat(Cardinality({ t \in 1..Len(observations) : observations[t] = k }), Len(observations))

C25_AlwaysBull ==
  ( /\ lastCall.op = "predictMarketRegime"
    /\ ~lastCall.threw
    /\ "stateSequence" \in DOMAIN lastCall.value )
    => /\ hmm.isTrained
       /\ lastCall.value.currentRegime = "BULL"
       /\ \A i \in DOMAIN lastCall.value.stateSequence :
            lastCall.value.stateSequence[i] = "BULL"

\* a trained model has decoded a series on its HMM path
C25_Witness ==
  /\ lastCall.op = "predictMarketRegime"
  /\ ~lastCall.threw
  /\ "stateSequence" \in DOMAIN lastCall.value
  /\ Len(hmm.trainingHistory) >= 1
  /\ lastCall.value.currentRegime = "BULL"

-----------------------------------------------------------------------------
(* TechnicalAnalyzerAgent.enhanceWithMLAnalysis: the AI analysis combined   *)
(* with the ML analysis of the same token                                  *)

SignalLabels == {"STRONG_BUY", "BUY", "WEAK_BUY", "NEUTRAL", "WEAK_SELL", "SELL", "STRONG_SELL"}
\* what determineOverallSignal of the agent can hand in besides
AISignals == SignalLabels \cup {"UNKNOWN", "CONFLICTED"}

\* the signalStrength table; a label outside it has no entry (undefined)
signalStrength ==
  [s \in SignalLabels \cup {"UNKNOWN"} |->
     CASE s = "STRONG_BUY" -> 5 [] s = "BUY" -> 4 [] s = "WEAK_BUY" -> 3
       [] s = "NEUTRAL" -> 2 [] s = "UNKNOWN" -> 2 [] s = "WEAK_SELL" -> 1
       [] s = "SELL" -> 0 [] s = "STRONG_SELL" -> -1]

\* signalStrength[signal] || 2: undefined and 0 are falsy
strengthOrDefault(signal) ==
  IF signal \in DOMAIN signalStrength /\ signalStrength[signal] # 0
  THEN signalStrength[signal] ELSE 2

combineAIandMLSignals(aiSignal, mlSignal) ==
  LET aiStrength == strengthOrDefault(aiSignal)
      mlStrength == strengthOrDefault(mlSignal)
      combinedStrength == Add(Mul(Num(aiStrength), Rat(45, 100)),
                              Mul(Num(mlStrength), Rat(55, 100)))
  IN  IF ~Lt(combinedStrength, Rat(45, 10)) THEN "STRONG_BUY"
      ELSE IF ~Lt(combinedStrength, Rat(35, 10)) THEN "BUY"
      ELSE IF ~Lt(combinedStrength, Rat(25, 10)) THEN "WEAK_BUY"
      ELSE IF ~Lt(combinedStrength, Rat(15, 10)) THEN "NEUTRAL"
      ELSE IF ~Lt(combinedStrength, Rat(5, 10)) THEN "WEAK_SELL"
      ELSE IF ~Lt(combinedStrength, Rat(-5, 10)) THEN "SELL"
      ELSE "STRONG_SELL"

\* the signal and the confidence of the enhanced analysis, with its
\* enhancementDetails; risk score and price targets do not depend on them
enhanceWithMLAnalysis(aiAnalysis, mlAnalysis) ==
  LET enhancedSignal == combineAIandMLSignals(aiAnalysis.overallSignal,
                                              mlAnalysis.overallSignal)
      mean == Div(Add(aiAnalysis.confidence, mlAnalysis.confidence), Num(2))
      enhancedConfidence == IF Lt(Rat(95, 100), mean) THEN Rat(95, 100) ELSE mean
  IN  [overallSignal |-> enhancedSignal,
       confidence |-> enhancedConfidence,
       mlEnhanced |-> TRUE,
       enhancementDetails |->
         [aiSignal |-> aiAnalysis.overallSignal,
          mlSignal |-> mlAnalysis.overallSignal,
          combinedSignal |-> enhancedSignal,
          confidenceBoost |-> Sub(enhancedConfidence, aiAnalysis.confidence)]]

\* Math.min(technical.confidence || 0.5, math.confidence || 0.5) of the agent
AIConfidences == {Rat(1, 2), Rat(8, 10), One}
\* calculateOverallConfidence of the ML analyzer
MLConfidences == {Rat(1, 10), Rat(58, 100)}

EnhanceWithMLAnalysis ==
  /\ app.op = "none"
  /\ \E aiSignal \in AISignals, mlSignal \in SignalLabels,
        aiConfidence \in AIConfidences, mlConfidence \in MLConfidences :
       app' = [op |-> "enhanceWithMLAnalysis",
               value |-> enhanceWithMLAnalysis(
                           [overallSignal |-> aiSignal, confidence |-> aiConfidence],
                           [overallSignal |-> mlSignal, confidence |-> mlConfidence])]
  /\ UNCHANGED <<hmm, lastCall, pc, tokenData, hmmAnalysis, trainedFor, ta, memo, bw, at, pdc, bot>>

InitEnhance == InitTA

NextEnhance == EnhanceWithMLAnalysis

SpecEnhance == InitEnhance /\ [][NextEnhance]_vars

-----------------------------------------------------------------------------
(* QuickTokenAnalyzer.quickAnalyze: the fast path, from the DexScreener    *)
(* and rugcheck data to the recommendation.  The analysis and reasoning    *)
(* texts are left out; nothing is decided on them.                         *)

\* Math.round(x * 100) / 100 for x >= 0
roundHundredths(x) == Rat((200 * x[1] + x[2]) \div (2 * x[2]), 100)

\* getRugcheckData: an error, a report without a score, or a report with one
RugcheckScores == {0, 1, 2, 5, 6, 50}
RugcheckData ==
  {[kind |-> "error"], [kind |-> "noScore"]}
    \cup { [kind |-> "score", score |-> n] : n \in RugcheckScores }

\* getDexScreenerData: an error, or the pair's price, liquidity, volume and
\* 24 h price change
DexPrices       == {0, 100}
DexLiquidities  == {0, 100000, 200000}
DexVolumes      == {50000, 60000}
DexPriceChanges == {-20, -6, 0, 6, 20}
DexData ==
  {[error |-> TRUE]}
    \cup { [error |-> FALSE, price |-> price, liquidity |-> liquidity,
            volume24h |-> volume24h, priceChange24h |-> priceChange24h] :
           price \in DexPrices, liquidity \in DexLiquidities,
           volume24h \in DexVolumes, priceChange24h \in DexPriceChanges }

generatePriceTargets(dexData, signal) ==
  IF dexData.price = 0 THEN <<>>
  ELSE IF signal \in {"BUY", "WEAK_BUY"}
  THEN [entry |-> Rat(dexData.price * 98, 100),
        takeProfit1 |-> Rat(dexData.price * 115, 100),
        takeProfit2 |-> Rat(dexData.price * 130, 100),
        stopLoss |-> Rat(dexData.price * 85, 100)]
  ELSE IF signal = "SELL" THEN [stopLoss |-> Rat(dexData.price * 105, 100)]
  ELSE <<>>

\* calculateRiskReward of the quick analyzer
quickRiskReward(dexData, signal) ==
  LET riskScore == Add(Add(Rat(6, 10),
                           IF dexData.liquidity < 50000 THEN Rat(2, 10) ELSE Zero),
                       IF Abs(dexData.priceChange24h) > 10 THEN Rat(1, 10) ELSE Zero)
  IN  [riskScore |-> MathMax(Rat(1, 10), MathMin(One, riskScore)),
       rewardRatio |-> MathMax(Rat(1, 2), MathMin(Num(3), Rat(12, 10)))]

\* the mutant: strong momentum alone makes the signal BUY
generateTechnicalAnalysisMomentumBuy(dexData, rugcheckData) ==
  LET hasScore == rugcheckData.kind = "score"
      fromScore ==
        IF hasScore
        THEN IF rugcheckData.score <= 1 THEN [signal |-> "BUY", add |-> Rat(3, 10)]
             ELSE IF rugcheckData.score <= 5 THEN [signal |-> "WEAK_BUY", add |-> Rat(1, 10)]
             ELSE [signal |-> "SELL", add |-> Rat(2, 10)]
        ELSE [signal |-> "HOLD", add |-> Zero]
      fromMomentum ==
        IF dexData.priceChange24h > 5
        THEN [signal |-> IF fromScore.signal = "HOLD" THEN "BUY" ELSE fromScore.signal,
              add |-> Rat(2, 10)]
        ELSE IF dexData.priceChange24h < -5
        THEN [signal |-> IF fromScore.signal = "BUY" THEN "WEAK_BUY" ELSE fromScore.signal,
              add |-> Rat(1, 10)]
        ELSE [signal |-> fromScore.signal, add |-> Zero]
      confidence ==
        Add(Add(Add(Add(Rat(1, 2), fromScore.add), fromMomentum.add),
                IF dexData.liquidity > 100000 THEN Rat(1, 10) ELSE Zero),
            IF dexData.volume24h > 50000 THEN Rat(1, 10) ELSE Zero)
  IN  [overallSignal |-> fromMomentum.signal,
       confidence |-> roundHundredths(MathMax(Rat(1, 10), MathMin(One, confidence))),
       priceTargets |-> generatePriceTargets(dexData, fromMomentum.signal),
       riskReward |-> quickRiskReward(dexData, fromMomentum.signal)]

generateTechnicalAnalysis(dexData, rugcheckData) ==
  LET hasScore == rugcheckData.kind = "score"
      fromScore ==
        IF hasScore
        THEN IF rugcheckData.score <= 1 THEN [signal |-> "BUY", add |-> Rat(3, 10)]
             ELSE IF rugcheckData.score <= 5 THEN [signal |-> "WEAK_BUY", add |-> Rat(1, 10)]
             ELSE [signal |-> "SELL", add |-> Rat(2, 10)]
        ELSE [signal |-> "HOLD", add |-> Zero]
      fromMomentum ==
        IF dexData.priceChange24h > 5
        THEN [signal |-> IF fromScore.signal = "HOLD" THEN "WEAK_BUY" ELSE fromScore.signal,
              add |-> Rat(2, 10)]
        ELSE IF dexData.priceChange24h < -5
        THEN [signal |-> IF fromScore.signal = "BUY" THEN "WEAK_BUY" ELSE fromScore.signal,
              add |-> Rat(1, 10)]
        ELSE [signal |-> fromScore.signal, add |-> Zero]
      confidence ==
        Add(Add(Add(Add(Rat(1, 2), fromScore.add), fromMomentum.add),
                IF dexData.liquidity > 100000 THEN Rat(1, 10) ELSE Zero),
            IF dexData.volume24h > 50000 THEN Rat(1, 10) ELSE Zero)
  IN  [overallSignal |-> fromMomentum.signal,
       confidence |-> roundHundredths(MathMax(Rat(1, 10), MathMin(One, confidence))),
       priceTargets |-> generatePriceTargets(dexData, fromMomentum.signal),
       riskReward |-> quickRiskReward(dexData, fromMomentum.signal)]

generateQuickRecommendation(dexData, rugcheckData, technicalAnalysis) ==
  LET hasScore == rugcheckData.kind = "score"
      \* <<action, profitProbability, riskScore, confidence>> after the rugcheck part
      r1 == IF hasScore
            THEN IF rugcheckData.score <= 1
                 THEN <<"HOLD", Rat(8, 10), Rat(3, 10), Rat(7, 10)>>
                 ELSE IF rugcheckData.score <= 5
                 THEN <<"HOLD", Rat(6, 10), Rat(4, 10), Rat(6, 10)>>
                 ELSE <<"AVOID", Rat(3, 10), Rat(8, 10), Rat(5, 10)>>
            ELSE <<"HOLD", Rat(5, 10), Rat(6, 10), Rat(5, 10)>>
      r2 == IF technicalAnalysis.overallSignal = "BUY"
            THEN <<"BUY", Add(r1[2], Rat(2, 10)), r1[3], r1[4]>>
            ELSE IF technicalAnalysis.overallSignal = "SELL"
            THEN <<"AVOID", r1[2], Add(r1[3], Rat(2, 10)), r1[4]>>
            ELSE r1
      change == dexData.priceChange24h
      profitProbability ==
        MathMax(Zero, MathMin(One, IF change > 10 THEN Add(r2[2], Rat(1, 10)) ELSE r2[2]))
      riskScore ==
        MathMax(Zero, MathMin(One, IF change < -10 THEN Add(r2[3], Rat(2, 10)) ELSE r2[3]))
      confidence == MathMax(Zero, MathMin(One, r2[4]))
      action == IF ~Lt(profitProbability, Rat(6, 10)) /\ ~Gt(riskScore, Rat(4, 10))
                THEN "BUY"
                ELSE IF ~Lt(riskScore, Rat(7, 10)) \/ ~Gt(profitProbability, Rat(3, 10))
                THEN "AVOID"
                ELSE r2[1]
  IN  [action |-> action,
       profitProbability |-> roundHundredths(profitProbability),
       riskScore |-> roundHundredths(riskScore),
       confidence |-> roundHundredths(confidence)]

quickAnalyze(dexData, rugcheckData) ==
  IF dexData.error
  THEN [op |-> "quickAnalyze", threw |-> TRUE,
        error |-> "Could not fetch token data from DexScreener"]
  ELSE [op |-> "quickAnalyze", threw |-> FALSE,
        dexData |-> dexData, rugcheckData |-> rugcheckData,
        technicalAnalysis |-> generateTechnicalAnalysis(dexData, rugcheckData),
        recommendation |->
          generateQuickRecommendation(dexData, rugcheckData,
                                      generateTechnicalAnalysis(dexData, rugcheckData)),
        analysisType |-> "quick"]

QuickAnalyze ==
  /\ app.op = "none"
  /\ \E dexData \in DexData, rugcheckData \in RugcheckData :
       app' = quickAnalyze(dexData, rugcheckData)
  /\ UNCHANGED <<hmm, lastCall, pc, tokenData, hmmAnalysis, trainedFor, ta, memo, bw, at, pdc, bot>>

InitQuick == InitTA

NextQuick == QuickAnalyze

SpecQuick == InitQuick /\ [][NextQuick]_vars

\* C26: the indicator engine's confidence never exceeds 1/3 and the ML
\* confidence never exceeds 0.95, so the combiner's overall confidence
\* (traditional x 0.6 + ml x 0.4) is below 0.7 and the position size of a
\* recommendation is one of SMALL, REDUCE and HOLD, never LARGE or NORMAL
C26_ConfidenceCeiling ==
  /\ at.phase \in {"analyzed", "returned"} =>
       LET traditional == IF at.phase = "analyzed" THEN at.traditional
                          ELSE at.value.analyses.traditional
           ml          == IF at.phase = "analyzed" THEN at.ml ELSE at.value.analyses.ml
       IN  /\ ~Gt(traditional.confidence, Rat(1, 3)) /\ ~IsNaN(traditional.confidence)
           /\ ~Gt(ml.confidence, Rat(95, 100)) /\ ~IsNaN(ml.confidence)
  /\ at.phase = "returned" =>
       /\ Lt(at.value.confidence, Rat(7, 10))
       /\ at.value.recommendation.positionSize \in {"SMALL", "REDUCE", "HOLD"}

\* a STRONG_BUY came back with the engine's confidence at its ceiling of 1/3
C26_Witness ==
  /\ at.phase = "returned"
  /\ at.value.analyses.traditional.confidence = Rat(1, 3)
  /\ at.value.overallSignal \in {"STRONG_BUY", "BUY"}
  /\ at.value.recommendation.positionSize = "SMALL"

\* C27: in the Raydium bot monitorAndBuyToken reports a successful buy, and
\* main goes on to sell monitoring with that buy price, only if the buy
\* transaction was sent and confirmed; a transaction that still fails after
\* its 5 attempts is not reported as a successful buy
C27_SuccessMeansConfirmed ==
  (/\ bot.phase = "selling"
   /\ bot.variant \in RaydiumVariants
   /\ bot.it.loop = "buy") => bot.it.confirmed

\* C28: in every run of a trading bot the phases are strictly ordered: no
\* sell swap is quoted or submitted before the buy phase has returned
\* success, and once the bot is in the sell phase it never returns to the
\* buy phase or submits another buy swap
InSellLoop(b)  == b.phase # "idle" /\ b.it.loop = "sell"
BuyReturnedSuccess(b) ==
  /\ b.it.loop = "buy" /\ b.it.quoted /\ b.it.submitted /\ b.it.end = "return"
  /\ b.buyPrice = b.it.price
PhaseOrder ==
  \* the sell loop runs only in the sell phase
  /\ InSellLoop(bot') => bot.phase = "selling"
  \* the sell phase is entered from the buy phase, by a buy that returned success
  /\ (bot'.phase = "selling" /\ bot.phase # "selling") =>
       (bot.phase = "buying" /\ BuyReturnedSuccess(bot'))
  \* no way back from the sell phase, or from the end of the run
  /\ bot.phase \in {"selling", "stopped"} =>
       (bot'.phase \in {"selling", "stopped"} /\ bot'.it.loop # "buy")
C28_PhasesOrdered == [][PhaseOrder]_vars

\* a whole run: the bot bought, then sold, and stopped
C28_Witness ==
  /\ bot.phase = "stopped"
  /\ bot.it.loop = "sell" /\ bot.it.quoted /\ bot.it.submitted /\ bot.it.confirmed
  /\ bot.buyPrice > 0

\* C29: combineAIandMLSignals is idempotent on agreement: for every label X
\* of STRONG_BUY, BUY, WEAK_BUY, NEUTRAL, WEAK_SELL, SELL and STRONG_SELL,
\* combining an AI signal X with an ML signal X returns X
C29_AgreementKept ==
  (/\ app.op = "enhanceWithMLAnalysis"
   /\ app.value.enhancementDetails.aiSignal \in SignalLabels
   /\ app.value.enhancementDetails.aiSignal = app.value.enhancementDetails.mlSignal)
    => app.value.overallSignal = app.value.enhancementDetails.aiSignal

\* C30: the fast-path analyzer never recommends BUY for a token whose
\* rugcheck score is greater than 5 or whose rugcheck data is unavailable,
\* whatever the price change, liquidity and volume: a BUY action implies a
\* rugcheck score that is present and at most 5
QuickAnalysisDone == app.op = "quickAnalyze" /\ ~app.threw
C30_BuyNeedsLowScore ==
  (QuickAnalysisDone /\ app.recommendation.action = "BUY")
    => (app.rugcheckData.kind = "score" /\ app.rugcheckData.score <= 5)

\* a BUY for a score of 5, and with it every other action for other tokens
C30_Witness ==
  /\ QuickAnalysisDone
  /\ app.recommendation.action = "BUY"
  /\ app.rugcheckData.kind = "score" /\ app.rugcheckData.score = 5
  /\ app.technicalAnalysis.overallSignal = "WEAK_BUY"

====
